---- MODULE Spec2Model ----
(***************************************************************************)
(* A model of the middle and back end of my-c-compiler: the Scope Resolver *)
(* (semantics/validator.rs), the Loop Labeler (semantics/loop_labeler.rs), *)
(* IR Lowering (backend/tacky_gen.rs) and the Instruction Selector         *)
(* (backend/asm_gen.rs).                                                   *)
(*                                                                         *)
(* The tree-walking passes are modelled as state machines over the         *)
(* traversal: one action per syntax-tree node kind the pass handles, taken *)
(* in the order the recursive walk visits the nodes.  The program being    *)
(* compiled is the sequence of nodes the actions choose.  Variables whose  *)
(* comment says "ghost" are not state of the compiler: they record the     *)
(* position in the input tree and what the pass has output so far.         *)
(***************************************************************************)
EXTENDS Integers, Sequences, FiniteSets, TLC

(***************************************************************************)
(* Bounds of the model.                                                    *)
(***************************************************************************)
\* declarations (functions, variables, parameters) in one program
MaxDecls == 3
\* scope frames opened while resolving one program (the global one included)
MaxFrames == 3
\* parameters of one function
MaxParams == 2
\* nodes (function bodies, blocks, ifs, loops) opened while labeling one program
MaxNodes == 5
\* ids the generator has issued before the labeler starts
MaxStartId == 2
\* labels the IR generator has made before the expression is lowered
MaxStartLabel == 1
\* the largest constant of an expression, value of a variable and result of a call
MaxConst == 1
\* arguments of one call
MaxArgs == 9
\* tacky instructions in the body of the function given to generate_assembly
MaxBody == 2

\* identifiers of the source program; variables and functions share them
Names == {"x", "f"}

NoName == "<none>"

VARIABLES
    counter,    \* UniqueIdGenerator.counter
    scopes,     \* Validator.scopes: a stack of maps name -> IdentifierInfo
    vresult,    \* what validate_program has returned: "new", "running", "Ok", "Err"
    verror,     \* the error returned, "none" while there is none
    ctx,        \* ghost: the open constructs of the input tree, outermost first
    nframes,    \* ghost: constructs with a scope of their own opened so far
    decls,      \* ghost: the declarations resolved so far, with their place in the tree
    lastUse,    \* ghost: the last variable use or call resolved, and its output
    lastDecl,   \* ghost: the last declaration resolved, and its outcome
    loop_id_stack,  \* LoopLabeler.loop_id_stack
    lresult,    \* what label_program has returned: "running", "Ok", "Err"
    lerror,     \* the error returned, "none" while there is none
    lctx,       \* ghost: the open nodes of the tree being labeled, outermost first
    lnodes,     \* ghost: nodes opened so far
    loops,      \* ghost: the loops labeled so far, each with the id it was given
    lastJump,   \* ghost: the last break or continue labeled, and its output
    label_counter,  \* TackyGenerator.label_counter
    texp,       \* the expression given to generate_tacky_for_expression
    instructions,   \* the instruction list generate_tacky_for_expression has filled
    tval,       \* the tacky::Val generate_tacky_for_expression has returned
    tstate,     \* "new", "emitted" (the list is being executed), "done"
    pc,         \* the index of the instruction to execute next
    env,        \* the values of the variables and temporaries of the running code
    executed,   \* ghost: the indices of the instructions executed so far
    shape,      \* ghost: where the operands of the outermost operator were emitted
    lval,       \* ghost: the value of the left operand when its code was done
    acall,      \* the tacky FunCall given to convert_funcall
    asm,        \* the assembly instruction list convert_funcall has filled
    astate,     \* "new", "emitted" (the list is being executed), "done"
    apc,        \* the index of the assembly instruction to execute next
    sp,         \* the bytes placed on the stack since control reached the call site
    cells,      \* what the registers and pseudo-registers hold
    pushed,     \* the values pushed so far, first pushed first
    snaps,      \* ghost: sp, cells and pushed as each call instruction found them
    tparams,    \* the parameters of the tacky::Function given to generate_assembly
    nbody,      \* ghost: the instructions of its body converted so far
    finstr,     \* asm_func.instructions
    fstate,     \* "new", "pass1", "pass2", "pass3", "done"
    pidx,       \* the index of the instruction the running pass looks at next
    var_map,    \* pass 2: var_map
    current_offset,     \* pass 2: current_offset
    stack_bytes,    \* what pass 2 has returned
    new_instructions,   \* pass 3: new_instructions
    pass1out,   \* ghost: the list pass 1 returned
    lastFix,    \* ghost: the last instruction pass 3 looked at, and what it pushed for it
    pdefects,   \* the passes that find an error in the program given to run_pipeline
    pcli,       \* the halting flags of the command line
    pstage,     \* where run_pipeline is: "new", "parsed", "resolved", ..., "returned"
    presult,    \* what run_pipeline has returned: "none", "Ok", "Err"
    ran,        \* ghost: the passes run_pipeline has called, in order
    tacky_ir,   \* whether tacky_ir has been bound
    asm_ast,    \* whether asm_ast has been bound
    symbols,    \* TypeChecker.symbols: resolved name -> Symbol
    cresult,    \* "new", "running", "Ok", "Err": where check_program is
    cerror,     \* the error check_program returned
    cparams,    \* the parameters of the function whose body is being checked
    pending,    \* for each call being checked, how many arguments are still to come
    nchecked,   \* how many declarations have been met
    lastCheck,  \* ghost: the declaration or expression checked last
    declared,   \* ghost: for each open scope, what each name declared in it is
    stores,     \* ghost: the stores to the program's variables, in the order they ran
    tacky_functions     \* tacky::Program.functions, as far as generate_tacky has filled it

resVars == <<scopes, vresult, verror, ctx, nframes, decls, lastUse, lastDecl>>

valVars == <<counter, resVars>>

labVars == <<loop_id_stack, lresult, lerror, lctx, lnodes, loops, lastJump>>

lowVars == <<label_counter, texp, instructions, tval, tstate, pc, env, executed, shape, lval>>

asmVars == <<acall, asm, astate, apc, sp, cells, pushed, snaps>>

allocVars == <<tparams, nbody, finstr, fstate, pidx, var_map, current_offset, stack_bytes,
               new_instructions, pass1out, lastFix>>

pipeVars == <<pdefects, pcli, pstage, presult, ran, tacky_ir, asm_ast>>

chkVars == <<symbols, cresult, cerror, cparams, pending, nchecked, lastCheck, declared>>

ctlVars == <<stores>>

progVars == <<tacky_functions>>

vars == <<valVars, labVars, lowVars, asmVars, allocVars, pipeVars, chkVars, ctlVars, progVars>>

\* what the resolver leaves alone
notResolver == <<labVars, lowVars, asmVars, allocVars, pipeVars, chkVars, ctlVars, progVars>>

\* what the labeler leaves alone
notLabeler == <<resVars, lowVars, asmVars, allocVars, pipeVars, chkVars, ctlVars, progVars>>

\* what lowering, and the code it emits, leave alone
notLower == <<resVars, labVars, asmVars, allocVars, pipeVars, chkVars, ctlVars, progVars>>

\* what instruction selection, and the code it emits, leave alone
notAsm == <<counter, resVars, labVars, lowVars, allocVars, pipeVars, chkVars, ctlVars, progVars>>

\* what the three passes over one function leave alone
notAlloc == <<counter, resVars, labVars, lowVars, asmVars, pipeVars, chkVars, ctlVars, progVars>>

\* what run_pipeline itself leaves alone
notPipe == <<counter, resVars, labVars, lowVars, asmVars, allocVars, chkVars, ctlVars, progVars>>

\* what the two semantic passes run together leave alone
notSemantics == <<decls, lastUse, lastDecl, labVars, lowVars, asmVars, allocVars, pipeVars, ctlVars, progVars>>

\* what running a statement's code leaves alone
notControl == <<resVars, labVars, asmVars, allocVars, pipeVars, chkVars, progVars>>

\* what lowering a program, and running its code, leave alone
notProgram == <<resVars, labVars, asmVars, allocVars, pipeVars, chkVars>>

(***************************************************************************)
(* common.rs: the shared id generator, and the decimal formatting of ids.  *)
(***************************************************************************)
Digit(d) ==
    CASE d = 0 -> "0" [] d = 1 -> "1" [] d = 2 -> "2" [] d = 3 -> "3"
      [] d = 4 -> "4" [] d = 5 -> "5" [] d = 6 -> "6" [] d = 7 -> "7"
      [] d = 8 -> "8" [] d = 9 -> "9"

RECURSIVE FormatId(_)
FormatId(n) ==
    IF n < 10 THEN Digit(n) ELSE FormatId(n \div 10) \o Digit(n % 10)

\* a generator that returns the counter and forgets to advance it
next_id_stuck(c) == [id |-> c, counter |-> c]

\* UniqueIdGenerator::next: returns the counter, which then advances by one
next_id(c) == [id |-> c, counter |-> c + 1]

(***************************************************************************)
(* semantics/validator.rs                                                  *)
(***************************************************************************)
EmptyFrame == [n \in {} |-> 0]

IdentifierInfo(unique, linkage) ==
    [unique_name |-> unique, has_external_linkage |-> linkage]

NotFound == [unique_name |-> NoName, has_external_linkage |-> FALSE]

\* Validator::generate_unique_name: "{original}.{id}" with the generator's next id
generate_unique_name(original_name, c) ==
    [name |-> original_name \o "." \o FormatId(next_id(c).id),
     counter |-> next_id(c).counter]

\* Validator::enter_scope
enter_scope(ss) == Append(ss, EmptyFrame)

\* an exit that leaves the frame on the stack
exit_scope_keeps(ss) == ss

\* an exit that pops the enclosing frame as well
exit_scope_two(ss) == SubSeq(ss, 1, Len(ss) - 2)

\* Validator::exit_scope
exit_scope(ss) == SubSeq(ss, 1, Len(ss) - 1)

\* a lookup that gives up after the innermost frame
FindFrom_last_only(ss, i, key) ==
    IF i = 0 THEN NotFound
    ELSE IF key \in DOMAIN ss[i] THEN ss[i][key]
    ELSE NotFound

RECURSIVE FindFrom(_, _, _)
FindFrom(ss, i, key) ==
    IF i = 0 THEN NotFound
    ELSE IF key \in DOMAIN ss[i] THEN ss[i][key]
    ELSE FindFrom(ss, i - 1, key)

RECURSIVE FindUpFrom(_, _, _)
FindUpFrom(ss, i, key) ==
    IF i > Len(ss) THEN NotFound
    ELSE IF key \in DOMAIN ss[i] THEN ss[i][key]
    ELSE FindUpFrom(ss, i + 1, key)

\* a lookup that searches the frames outermost first
find_identifier_outermost_first(ss, key) == FindUpFrom(ss, 1, key)

\* Validator::find_identifier: the first frame holding key, innermost first
find_identifier(ss, key) == FindFrom(ss, Len(ss), key)

\* HashMap::insert into the innermost frame
insert_last(ss, key, info) ==
    [ss EXCEPT ![Len(ss)] = (key :> info) @@ ss[Len(ss)]]

\* a duplicate test of a function declaration that any entry fails
function_conflicts_any(ss, name) ==
    /\ Len(ss) > 0
    /\ name \in DOMAIN ss[Len(ss)]

\* the duplicate test of a function declaration: an unlinked entry in the last frame
function_conflicts(ss, name) ==
    /\ Len(ss) > 0
    /\ name \in DOMAIN ss[Len(ss)]
    /\ ~ss[Len(ss)][name].has_external_linkage

\* a duplicate test that looks through every frame
contains_key_any(ss, name) == \E i \in 1..Len(ss) : name \in DOMAIN ss[i]

\* the duplicate test of a variable declaration and of a parameter: any entry
contains_key_last(ss, name) == name \in DOMAIN ss[Len(ss)]

(* The parameter loop of validate_declaration: each parameter is tested    *)
(* against the function's own frame, renamed, and inserted.                *)
RECURSIVE validate_params(_, _, _, _, _)
validate_params(params, i, ss, c, out) ==
    IF i > Len(params) THEN [err |-> "none", scopes |-> ss, counter |-> c, names |-> out]
    ELSE IF contains_key_last(ss, params[i])
         THEN [err |-> "DuplicateDeclaration", scopes |-> ss, counter |-> c, names |-> out]
    ELSE LET u == generate_unique_name(params[i], c)
         IN validate_params(params, i + 1,
                            insert_last(ss, params[i], IdentifierInfo(u.name, FALSE)),
                            u.counter, Append(out, u.name))

(***************************************************************************)
(* Ghost: the place of a node in the input tree.                           *)
(***************************************************************************)
\* the place of a node: the constructs around it, each with its number and kind
Path(cx) == [i \in 1..Len(cx) |-> [id |-> cx[i].id, kind |-> cx[i].kind]]

Top == ctx[Len(ctx)]

IsPrefix(p, q) == Len(p) <= Len(q) /\ \A i \in 1..Len(p) : p[i] = q[i]

\* an event inside a for header or body ends the place where its init may stand;
\* a function declaration at top level ends the initializer of a global variable
Touch(cx, st) == [cx EXCEPT ![Len(cx)].st = st]

Touched(cx) ==
    IF cx[Len(cx)].kind = "for" THEN Touch(cx, "rest") ELSE cx

Decl(name, unique, linkage, path, ord) ==
    [name |-> name, uniq |-> unique, linked |-> linkage, path |-> path, ord |-> ord]

NoUse == [op |-> "none", name |-> NoName, res |-> NoName, path |-> <<>>, at |-> 0]

NoDecl == [op |-> "none", name |-> NoName, uniq |-> NoName, path |-> <<>>, at |-> 0,
           err |-> "none"]

ParamLists == UNION {[1..k -> Names] : k \in 0..MaxParams}

Running == vresult = "running"

Fail(e) ==
    /\ vresult' = "Err"
    /\ verror' = e

(***************************************************************************)
(* The resolver's actions.                                                 *)
(***************************************************************************)
NoId == -1

NoJump == [op |-> "none", target |-> NoId, path |-> <<>>]

\* LoopLabeler::new
LabelerNew ==
    /\ loop_id_stack = <<>>
    /\ lresult = "running"
    /\ lerror = "none"
    /\ lctx = <<>>
    /\ lnodes = 0
    /\ loops = {}
    /\ lastJump = NoJump

NoVal == [kind |-> "None"]

NoShape == [op |-> "none", test |-> 0, rlo |-> 0, rhi |-> 0, left |-> NoVal]

\* a TackyGenerator that has not been given the expression yet
LowerIdle ==
    /\ texp = NoVal
    /\ instructions = <<>>
    /\ tval = NoVal
    /\ tstate = "new"
    /\ pc = 0
    /\ env = <<>>
    /\ executed = {}
    /\ shape = NoShape
    /\ lval = <<>>

\* TackyGenerator::new
LowerNew ==
    /\ label_counter = 0
    /\ LowerIdle

Registers == {"AX", "CX", "DX", "DI", "SI", "R8", "R9", "R10", "R11"}

Undef == [kind |-> "Undef"]

\* AsmGenerator::new, and a machine that has not reached the call site
AsmNew ==
    /\ acall = NoVal
    /\ asm = <<>>
    /\ astate = "new"
    /\ apc = 0
    /\ sp = 0
    /\ cells = [r \in Registers |-> Undef]
    /\ pushed = <<>>
    /\ snaps = <<>>

NoFix == [of |-> NoVal, out |-> <<>>]

\* AsmGenerator::new, before generate_assembly is given a function
AllocNew ==
    /\ tparams = <<>>
    /\ nbody = 0
    /\ finstr = <<>>
    /\ fstate = "new"
    /\ pidx = 0
    /\ var_map = <<>>
    /\ current_offset = 0
    /\ stack_bytes = 0
    /\ new_instructions = <<>>
    /\ pass1out = <<>>
    /\ lastFix = NoFix

\* run_pipeline has not been called
PipeNew ==
    /\ pdefects = {}
    /\ pcli = {}
    /\ pstage = "new"
    /\ presult = "none"
    /\ ran = <<>>
    /\ tacky_ir = FALSE
    /\ asm_ast = FALSE

NoSymbol == [c_type |-> [kind |-> "None"], defined |-> FALSE]

NoCheck == [op |-> "none", name |-> NoName, n |-> 0, has_body |-> FALSE,
            old |-> NoSymbol, linked |-> FALSE, kind |-> "none", err |-> "none"]

\* TypeChecker::new
CheckerNew ==
    /\ symbols = [n \in {} |-> NoSymbol]
    /\ cresult = "new"
    /\ cerror = "none"
    /\ cparams = <<>>
    /\ pending = <<>>
    /\ nchecked = 0
    /\ lastCheck = NoCheck
    /\ declared = <<>>

\* no instruction has run
ControlNew == stores = <<>>

\* no function has been lowered
ProgramNew == tacky_functions = <<>>

\* Validator::new
ResolverNew ==
    /\ scopes = <<>>
    /\ vresult = "new"
    /\ verror = "none"
    /\ ctx = <<>>
    /\ nframes = 0
    /\ decls = {}
    /\ lastUse = NoUse
    /\ lastDecl = NoDecl

InitResolver ==
    /\ counter = 0
    /\ ResolverNew
    /\ LabelerNew
    /\ LowerNew
    /\ AsmNew
    /\ AllocNew
    /\ PipeNew
    /\ CheckerNew
    /\ ControlNew
    /\ ProgramNew

\* validate_program, up to its loop: the global scope is entered
ValidateProgramBegin ==
    /\ vresult = "new"
    /\ scopes' = enter_scope(scopes)
    /\ vresult' = "running"
    /\ ctx' = <<[kind |-> "global", id |-> 1, st |-> "top"]>>
    /\ nframes' = 1
    /\ UNCHANGED <<counter, verror, decls, lastUse, lastDecl>>
    /\ UNCHANGED notResolver

\* validate_program, after its loop: Ok(Program); the global scope is not exited
ValidateProgramEnd ==
    /\ Running
    /\ Top.kind = "global"
    /\ vresult' = "Ok"
    /\ UNCHANGED <<counter, scopes, verror, ctx, nframes, decls, lastUse, lastDecl>>
    /\ UNCHANGED notResolver

\* where the grammar allows a declaration
MayDeclareVariable ==
    \/ Top.kind \in {"global", "func", "block"}
    \/ Top.kind = "for" /\ Top.st = "init"

MayDeclareFunction == Top.kind \in {"global", "func", "block"}

\* validate_declaration, Declaration::Variable
VariableDeclaration(name) ==
    /\ Running
    /\ MayDeclareVariable
    /\ Cardinality(decls) < MaxDecls
    /\ LET is_global == Top.kind = "global"
           u == IF is_global THEN [name |-> name, counter |-> counter]
                ELSE generate_unique_name(name, counter)
       IN IF contains_key_last(scopes, name)
          THEN /\ Fail("DuplicateDeclaration")
               /\ lastDecl' = [op |-> "var", name |-> name, uniq |-> NoName,
                               path |-> Path(ctx), at |-> Cardinality(decls),
                               err |-> "DuplicateDeclaration"]
               /\ UNCHANGED <<counter, scopes, ctx, decls>>
          ELSE /\ counter' = u.counter
               /\ scopes' = insert_last(scopes, name, IdentifierInfo(u.name, is_global))
               /\ decls' = decls \cup
                    {Decl(name, u.name, is_global, Path(ctx), Cardinality(decls) + 1)}
               /\ lastDecl' = [op |-> "var", name |-> name, uniq |-> u.name,
                               path |-> Path(ctx), at |-> Cardinality(decls),
                               err |-> "none"]
               /\ ctx' = IF is_global THEN Touch(ctx, "init") ELSE Touched(ctx)
               /\ UNCHANGED <<vresult, verror>>
    /\ UNCHANGED <<nframes, lastUse>>
    /\ UNCHANGED notResolver

\* ghost: the declarations the parameters make, marked as parameters
ParamDecls(params, names, path, ord0) ==
    {Decl(params[i], names[i], FALSE, path, ord0 + i) @@ [param |-> TRUE] :
        i \in 1..Len(names)}

\* a body that is given a scope of its own, as a nested block is
body_scope_own(ss) == enter_scope(ss)

\* the scope the items of a function's body are validated in: the one that holds
\* the parameters
body_scope(ss) == ss

\* validate_declaration, Declaration::Function: the part before the body
\* (the duplicate test, the insertion, the function's scope, its parameters)
DeclareFunction(name, params, has_body) ==
    LET here == Path(ctx)
        inner == Append(here, [id |-> nframes + 1, kind |-> "func"])
        ord == Cardinality(decls)
        r == validate_params(params, 1,
                             enter_scope(insert_last(scopes, name,
                                                     IdentifierInfo(name, TRUE))),
                             counter, <<>>)
    IN IF function_conflicts(scopes, name)
       THEN /\ Fail("DuplicateDeclaration")
            /\ lastDecl' = [op |-> "function", name |-> name, uniq |-> NoName,
                            path |-> here, at |-> ord, err |-> "DuplicateDeclaration"]
            /\ UNCHANGED <<counter, scopes, ctx, nframes, decls>>
       ELSE /\ counter' = r.counter
            /\ nframes' = nframes + 1
            /\ decls' = decls \cup {Decl(name, name, TRUE, here, ord + 1)}
                              \cup ParamDecls(params, r.names, inner, ord + 1)
            /\ IF r.err # "none"
               THEN /\ Fail(r.err)
                    /\ scopes' = r.scopes
                    /\ lastDecl' = [op |-> "param", name |-> params[Len(r.names) + 1],
                                    uniq |-> NoName, path |-> inner,
                                    at |-> ord + 1 + Len(r.names), err |-> r.err]
                    /\ UNCHANGED ctx
               ELSE /\ lastDecl' = [op |-> "function", name |-> name, uniq |-> name,
                                    path |-> here, at |-> ord, err |-> "none"]
                    /\ UNCHANGED <<vresult, verror>>
                    /\ IF has_body
                       THEN /\ scopes' = body_scope(r.scopes)
                            /\ ctx' = Append(Touch(ctx, "top"),
                                       [kind |-> "func", id |-> nframes + 1, st |-> "item",
                                        entry |-> scopes, fn |-> name])
                       ELSE /\ scopes' = exit_scope(r.scopes)
                            /\ ctx' = IF Top.kind = "global" THEN Touch(ctx, "top") ELSE ctx

DeclBudget(params) ==
    /\ Cardinality(decls) + 1 + Len(params) <= MaxDecls
    /\ nframes < MaxFrames

\* validate_declaration on a function declaration without a body, at top level
\* or as a block item
FunctionDeclaration(name, params) ==
    /\ Running
    /\ MayDeclareFunction
    /\ DeclBudget(params)
    /\ DeclareFunction(name, params, FALSE)
    /\ UNCHANGED lastUse
    /\ UNCHANGED notResolver

\* validate_declaration on a function definition at top level, up to its body
FunctionDefinition(name, params) ==
    /\ Running
    /\ Top.kind = "global"
    /\ DeclBudget(params)
    /\ DeclareFunction(name, params, TRUE)
    /\ UNCHANGED lastUse
    /\ UNCHANGED notResolver

\* validate_declaration on a function definition that is a block item
NestedFunctionDefinition ==
    /\ Running
    /\ Top.kind \in {"func", "block"}
    /\ Fail("NestedFunction")
    /\ UNCHANGED <<counter, scopes, ctx, nframes, decls, lastUse, lastDecl>>
    /\ UNCHANGED notResolver

\* validate_declaration on a function definition, after its body: exit_scope
FunctionBodyEnd ==
    /\ Running
    /\ Top.kind = "func"
    /\ scopes' = exit_scope(scopes)
    /\ ctx' = SubSeq(ctx, 1, Len(ctx) - 1)
    /\ UNCHANGED <<counter, vresult, verror, nframes, decls, lastUse, lastDecl>>
    /\ UNCHANGED notResolver

InBody == Top.kind \in {"func", "block", "for"}

\* validate_block, up to its loop over the block's items
CompoundEnter ==
    /\ Running
    /\ InBody
    /\ nframes < MaxFrames
    /\ scopes' = enter_scope(scopes)
    /\ nframes' = nframes + 1
    /\ ctx' = Append(Touched(ctx), [kind |-> "block", id |-> nframes + 1, st |-> "item",
                                    entry |-> scopes])
    /\ UNCHANGED <<counter, vresult, verror, decls, lastUse, lastDecl>>
    /\ UNCHANGED notResolver

\* validate_block, after its loop
CompoundExit ==
    /\ Running
    /\ Top.kind = "block"
    /\ scopes' = exit_scope(scopes)
    /\ ctx' = SubSeq(ctx, 1, Len(ctx) - 1)
    /\ UNCHANGED <<counter, vresult, verror, nframes, decls, lastUse, lastDecl>>
    /\ UNCHANGED notResolver

\* validate_statement, Statement::For, up to its init
ForEnter ==
    /\ Running
    /\ InBody
    /\ nframes < MaxFrames
    /\ scopes' = enter_scope(scopes)
    /\ nframes' = nframes + 1
    /\ ctx' = Append(Touched(ctx), [kind |-> "for", id |-> nframes + 1, st |-> "init",
                                    entry |-> scopes])
    /\ UNCHANGED <<counter, vresult, verror, decls, lastUse, lastDecl>>
    /\ UNCHANGED notResolver

\* validate_statement, Statement::For, after its body
ForExit ==
    /\ Running
    /\ Top.kind = "for"
    /\ scopes' = exit_scope(scopes)
    /\ ctx' = SubSeq(ctx, 1, Len(ctx) - 1)
    /\ UNCHANGED <<counter, vresult, verror, nframes, decls, lastUse, lastDecl>>
    /\ UNCHANGED notResolver

\* where the grammar allows an expression: in a function body, and in the
\* initializer of a top-level variable
MayUse == InBody \/ (Top.kind = "global" /\ Top.st = "init")

\* validate_expression, Expression::Var
VarExpression(name) ==
    /\ Running
    /\ MayUse
    /\ LET info == find_identifier(scopes, name)
       IN /\ lastUse' = [op |-> "var", name |-> name, res |-> info.unique_name,
                         path |-> Path(ctx), at |-> Cardinality(decls)]
          /\ IF info = NotFound
             THEN Fail("UndeclaredIdentifier") /\ UNCHANGED ctx
             ELSE ctx' = Touched(ctx) /\ UNCHANGED <<vresult, verror>>
    /\ UNCHANGED <<counter, scopes, nframes, decls, lastDecl>>
    /\ UNCHANGED notResolver

\* validate_expression, Expression::FunctionCall, up to its arguments
FunctionCallExpression(name) ==
    /\ Running
    /\ MayUse
    /\ LET info == find_identifier(scopes, name)
       IN IF info = NotFound
          THEN /\ Fail("UndeclaredIdentifier")
               /\ lastUse' = [op |-> "call", name |-> name, res |-> NoName,
                              path |-> Path(ctx), at |-> Cardinality(decls)]
               /\ UNCHANGED ctx
          ELSE IF ~info.has_external_linkage
          THEN /\ Fail("KindConfusion")
               /\ lastUse' = [op |-> "call", name |-> name, res |-> NoName,
                              path |-> Path(ctx), at |-> Cardinality(decls)]
               /\ UNCHANGED ctx
          ELSE /\ lastUse' = [op |-> "call", name |-> name, res |-> info.unique_name,
                              path |-> Path(ctx), at |-> Cardinality(decls)]
               /\ ctx' = Touched(ctx)
               /\ UNCHANGED <<vresult, verror>>
    /\ UNCHANGED <<counter, scopes, nframes, decls, lastDecl>>
    /\ UNCHANGED notResolver

\* validate_expression, Expression::Assign whose left side is not a variable
AssignToNonVariable ==
    /\ Running
    /\ MayUse
    /\ Fail("InvalidAssignmentTarget")
    /\ UNCHANGED <<counter, scopes, ctx, nframes, decls, lastUse, lastDecl>>
    /\ UNCHANGED notResolver

NextResolver ==
    \/ ValidateProgramBegin
    \/ ValidateProgramEnd
    \/ \E n \in Names : VariableDeclaration(n)
    \/ \E n \in Names, ps \in ParamLists : FunctionDeclaration(n, ps)
    \/ \E n \in Names, ps \in ParamLists : FunctionDefinition(n, ps)
    \/ NestedFunctionDefinition
    \/ FunctionBodyEnd
    \/ CompoundEnter
    \/ CompoundExit
    \/ ForEnter
    \/ ForExit
    \/ \E n \in Names : VarExpression(n)
    \/ \E n \in Names : FunctionCallExpression(n)
    \/ AssignToNonVariable

SpecResolver == InitResolver /\ [][NextResolver]_vars

(***************************************************************************)
(* semantics/loop_labeler.rs.  The labeler runs on a tree the resolver has *)
(* accepted, so a function body is met at top level only; the ids it gives *)
(* come from the generator the resolver has already drawn from.            *)
(***************************************************************************)
\* a loop exit that leaves the id on the stack
pop_loop_keeps(stack) == stack

\* a loop exit that clears the stack
pop_loop_all(stack) == <<>>

\* loop_id_stack.pop()
pop_loop(stack) == SubSeq(stack, 1, Len(stack) - 1)

\* a jump that takes id 0 when no loop is open
label_jump_lenient(stack) ==
    [ok |-> TRUE, target |-> IF stack # <<>> THEN stack[Len(stack)] ELSE 0]

\* label_statement, Break and Continue: loop_id_stack.last(), or the error
label_jump(stack) ==
    IF stack # <<>> THEN [ok |-> TRUE, target |-> stack[Len(stack)]]
    ELSE [ok |-> FALSE, target |-> NoId]

NotInLoop(op) == "'" \o op \o "' statement not in a loop"

LTop == lctx[Len(lctx)]

Labeling == lresult = "running"

InitLabeler ==
    /\ counter \in 0..MaxStartId
    /\ ResolverNew
    /\ LabelerNew
    /\ LowerNew
    /\ AsmNew
    /\ AllocNew
    /\ PipeNew
    /\ CheckerNew
    /\ ControlNew
    /\ ProgramNew

\* label_declaration on a function definition: label_block on its body begins
LabelFunctionBegin ==
    /\ Labeling
    /\ lctx = <<>>
    /\ lnodes < MaxNodes
    /\ lnodes' = lnodes + 1
    /\ lctx' = <<[kind |-> "func", node |-> lnodes + 1, entry |-> loop_id_stack]>>
    /\ UNCHANGED <<counter, loop_id_stack, lresult, lerror, loops, lastJump>>
    /\ UNCHANGED notLabeler

\* label_declaration on a function definition: label_block on its body is done
LabelFunctionEnd ==
    /\ Labeling
    /\ Len(lctx) = 1
    /\ lctx' = <<>>
    /\ UNCHANGED <<counter, loop_id_stack, lresult, lerror, lnodes, loops, lastJump>>
    /\ UNCHANGED notLabeler

\* label_declaration on a declaration without a body, and label_statement on a
\* Return, an Expression or an Empty statement: the node is copied
LabelPlain ==
    /\ Labeling
    /\ UNCHANGED <<counter, labVars>>
    /\ UNCHANGED notLabeler

\* label_statement on a Compound or an If, up to its children
LabelNestEnter(kind) ==
    /\ Labeling
    /\ lctx # <<>>
    /\ lnodes < MaxNodes
    /\ lnodes' = lnodes + 1
    /\ lctx' = Append(lctx, [kind |-> kind, node |-> lnodes + 1, entry |-> loop_id_stack])
    /\ UNCHANGED <<counter, loop_id_stack, lresult, lerror, loops, lastJump>>
    /\ UNCHANGED notLabeler

\* label_statement on a Compound or an If, after its children
LabelNestExit ==
    /\ Labeling
    /\ Len(lctx) > 1
    /\ LTop.kind \in {"block", "if"}
    /\ lctx' = SubSeq(lctx, 1, Len(lctx) - 1)
    /\ UNCHANGED <<counter, loop_id_stack, lresult, lerror, lnodes, loops, lastJump>>
    /\ UNCHANGED notLabeler

\* label_statement on a For, a While or a DoWhile, up to its children: an id is
\* drawn and pushed
LabelLoopEnter(kind) ==
    /\ Labeling
    /\ lctx # <<>>
    /\ lnodes < MaxNodes
    /\ LET loop_id == next_id(counter)
       IN /\ counter' = loop_id.counter
          /\ loop_id_stack' = Append(loop_id_stack, loop_id.id)
          /\ loops' = loops \cup {[node |-> lnodes + 1, id |-> loop_id.id, kind |-> kind]}
    /\ lnodes' = lnodes + 1
    /\ lctx' = Append(lctx, [kind |-> "loop", node |-> lnodes + 1, entry |-> loop_id_stack])
    /\ UNCHANGED <<lresult, lerror, lastJump>>
    /\ UNCHANGED notLabeler

\* label_statement on a For, a While or a DoWhile, after its children: the pop
LabelLoopExit ==
    /\ Labeling
    /\ Len(lctx) > 1
    /\ LTop.kind = "loop"
    /\ loop_id_stack' = pop_loop(loop_id_stack)
    /\ lctx' = SubSeq(lctx, 1, Len(lctx) - 1)
    /\ UNCHANGED <<counter, lresult, lerror, lnodes, loops, lastJump>>
    /\ UNCHANGED notLabeler

\* label_statement on a Break or a Continue
LabelJump(op) ==
    /\ Labeling
    /\ lctx # <<>>
    /\ LET r == label_jump(loop_id_stack)
       IN /\ lastJump' = [op |-> op, target |-> r.target, path |-> lctx]
          /\ IF r.ok THEN UNCHANGED <<lresult, lerror>>
             ELSE lresult' = "Err" /\ lerror' = NotInLoop(op)
    /\ UNCHANGED <<counter, loop_id_stack, lctx, lnodes, loops>>
    /\ UNCHANGED notLabeler

\* label_program, after its loop: Ok(checked::Program)
LabelProgramEnd ==
    /\ Labeling
    /\ lctx = <<>>
    /\ lresult' = "Ok"
    /\ UNCHANGED <<counter, loop_id_stack, lerror, lctx, lnodes, loops, lastJump>>
    /\ UNCHANGED notLabeler

NextLabeler ==
    \/ LabelFunctionBegin
    \/ LabelFunctionEnd
    \/ LabelPlain
    \/ \E k \in {"block", "if"} : LabelNestEnter(k)
    \/ LabelNestExit
    \/ \E k \in {"for", "while", "dowhile"} : LabelLoopEnter(k)
    \/ LabelLoopExit
    \/ \E op \in {"break", "continue"} : LabelJump(op)
    \/ LabelProgramEnd

SpecLabeler == InitLabeler /\ [][NextLabeler]_vars

(***************************************************************************)
(* backend/tacky_gen.rs: generate_tacky_for_expression.  The expressions   *)
(* lowered are constants, variables, !e, e + e, e && e, e || e and calls   *)
(* without arguments, nested two operators deep.                           *)
(***************************************************************************)
ExpConstant(i) == [kind |-> "Constant", value |-> i]

ExpVar(name) == [kind |-> "Var", name |-> name]

ExpUnary(operator, expression) ==
    [kind |-> "Unary", operator |-> operator, expression |-> expression]

ExpBinary(operator, left, right) ==
    [kind |-> "Binary", operator |-> operator, left |-> left, right |-> right]

ExpFunctionCall(name, args) == [kind |-> "FunctionCall", name |-> name, args |-> args]

ExpAssign(left, right) == [kind |-> "Assign", left |-> left, right |-> right]

ExpConditional(condition, left, right) ==
    [kind |-> "Conditional", condition |-> condition, left |-> left, right |-> right]

ValConstant(i) == [kind |-> "Constant", value |-> i]

ValVar(name) == [kind |-> "Var", name |-> name]

Return(val) == [op |-> "Return", val |-> val]

Unary(operator, src, dst) == [op |-> "Unary", operator |-> operator, src |-> src, dst |-> dst]

Binary(operator, src1, src2, dst) ==
    [op |-> "Binary", operator |-> operator, src1 |-> src1, src2 |-> src2, dst |-> dst]

Copy(src, dst) == [op |-> "Copy", src |-> src, dst |-> dst]

Jump(target) == [op |-> "Jump", target |-> target]

JumpIfZero(condition, target) ==
    [op |-> "JumpIfZero", condition |-> condition, target |-> target]

JumpIfNotZero(condition, target) ==
    [op |-> "JumpIfNotZero", condition |-> condition, target |-> target]

Label(name) == [op |-> "Label", name |-> name]

FunCall(name, args, dst) == [op |-> "FunCall", name |-> name, args |-> args, dst |-> dst]

\* a temporary maker that counts its temporaries itself, from zero
make_temporary_own_count(c) == [name |-> "tmp." \o FormatId(0), counter |-> c]

make_temporary(c) ==
    LET n == next_id(c)
    IN [name |-> "tmp." \o FormatId(n.id), counter |-> n.counter]

\* a label maker that forgets to advance the label counter
make_label_with_prefix_stuck(prefix, lc) ==
    [label |-> "_" \o prefix \o "_" \o FormatId(lc), label_counter |-> lc]

make_label_with_prefix(prefix, lc) ==
    [label |-> "_" \o prefix \o "_" \o FormatId(lc), label_counter |-> lc + 1]

\* the generator between two steps: the list filled so far, the two
\* counters, and the value the last step returned
Gen(ins, c, lc) ==
    [val |-> NoVal, instructions |-> ins, counter |-> c, label_counter |-> lc]

Push(g, ins) == [g EXCEPT !.instructions = Append(@, ins)]

Ok(val, g) == [g EXCEPT !.val = val]

\* a copy of the value the last step returned; the value stays the same
copy_value(g, dst) == Push(g, Copy(g.val, dst))

\* a jump taken when the value the last step returned is zero
jump_if_zero(g, target) == Push(g, JumpIfZero(g.val, target))

\* a jump taken when the value the last step returned is not zero
jump_if_not_zero(g, target) == Push(g, JumpIfNotZero(g.val, target))

\* a Return that carries the value the last step returned
return_value(g) == Push(g, Return(g.val))

\* a test of the left operand of && that jumps when it is not zero
and_left_test_inverted(g, false_label) == jump_if_not_zero(g, false_label)

\* the And arm, step 2: the left operand's value is tested
and_left_test(g, false_label) == jump_if_zero(g, false_label)

\* the Unary arm after its operand: a fresh temporary takes the result
unary_into_temporary(operator, g1) ==
    LET t == make_temporary(g1.counter)
        dst == ValVar(t.name)
    IN Ok(dst, Push([g1 EXCEPT !.counter = t.counter],
                    Unary(operator, g1.val, dst)))

\* the Binary arm after both operands: a fresh temporary takes the result
binary_into_temporary(operator, v1, g2) ==
    LET t == make_temporary(g2.counter)
        dst == ValVar(t.name)
    IN Ok(dst, Push([g2 EXCEPT !.counter = t.counter],
                    Binary(operator, v1, g2.val, dst)))

RECURSIVE generate_tacky_for_expression(_, _)

\* the Unary arm
generate_unary(exp, g) ==
    unary_into_temporary(exp.operator, generate_tacky_for_expression(exp.expression, g))

\* the Binary arm, And
generate_and(exp, g) ==
    LET t == make_temporary(g.counter)
        result_var == ValVar(t.name)
        false_label == make_label_with_prefix("and_false", g.label_counter)
        end_label == make_label_with_prefix("and_end", false_label.label_counter)
        g0 == [g EXCEPT !.counter = t.counter,
                        !.label_counter = end_label.label_counter]
        g1 == generate_tacky_for_expression(exp.left, g0)
        g2 == and_left_test(g1, false_label.label)
        g3 == generate_tacky_for_expression(exp.right, g2)
        g4 == jump_if_zero(g3, false_label.label)
        g5 == Push(g4, Copy(ValConstant(1), result_var))
        g6 == Push(g5, Jump(end_label.label))
        g7 == Push(g6, Label(false_label.label))
        g8 == Push(g7, Copy(ValConstant(0), result_var))
        g9 == Push(g8, Label(end_label.label))
    IN Ok(result_var, g9)

\* the Binary arm, Or
generate_or(exp, g) ==
    LET t == make_temporary(g.counter)
        result_var == ValVar(t.name)
        true_label == make_label_with_prefix("or_true", g.label_counter)
        end_label == make_label_with_prefix("or_end", true_label.label_counter)
        g0 == [g EXCEPT !.counter = t.counter,
                        !.label_counter = end_label.label_counter]
        g1 == generate_tacky_for_expression(exp.left, g0)
        g2 == jump_if_not_zero(g1, true_label.label)
        g3 == generate_tacky_for_expression(exp.right, g2)
        g4 == jump_if_not_zero(g3, true_label.label)
        g5 == Push(g4, Copy(ValConstant(0), result_var))
        g6 == Push(g5, Jump(end_label.label))
        g7 == Push(g6, Label(true_label.label))
        g8 == Push(g7, Copy(ValConstant(1), result_var))
        g9 == Push(g8, Label(end_label.label))
    IN Ok(result_var, g9)

\* the Binary arm, every other operator: the right operand after the left
binary_right(exp, g1) ==
    binary_into_temporary(exp.operator, g1.val,
                          generate_tacky_for_expression(exp.right, g1))

\* a Binary instruction whose second operand was evaluated first
binary_into_temporary_left(operator, v2, g2) ==
    LET t == make_temporary(g2.counter)
        dst == ValVar(t.name)
    IN Ok(dst, Push([g2 EXCEPT !.counter = t.counter],
                    Binary(operator, g2.val, v2, dst)))

binary_left(exp, g1) ==
    binary_into_temporary_left(exp.operator, g1.val,
                               generate_tacky_for_expression(exp.left, g1))

\* a Binary arm that evaluates the right operand first
generate_binary_right_first(exp, g) ==
    binary_left(exp, generate_tacky_for_expression(exp.right, g))

\* the Binary arm, every other operator: the left operand first
generate_binary(exp, g) ==
    binary_right(exp, generate_tacky_for_expression(exp.left, g))

\* a call after its arguments: one call instruction carrying the callee's
\* name, the argument values and a destination temporary
call_into_temporary(name, r) ==
    LET t == make_temporary(r.counter)
        dst == ValVar(t.name)
    IN Ok(dst, Push([r EXCEPT !.counter = t.counter], FunCall(name, r.val, dst)))

\* the value of one more argument is added to the values gathered before it
gather(vals, g1) == Ok(Append(vals, g1.val), g1)

\* the arguments of a call, evaluated left to right into values
RECURSIVE generate_arguments(_, _, _)
generate_arguments(args, i, g) ==
    IF i > Len(args) THEN g
    ELSE generate_arguments(args, i + 1,
                            gather(g.val, generate_tacky_for_expression(args[i], g)))

\* a call: its arguments, then the call instruction
generate_call(exp, g) ==
    call_into_temporary(exp.name, generate_arguments(exp.args, 1, Ok(<<>>, g)))

\* the Assign arm: the right side's code, a copy into the variable on the left;
\* the value is the right side's
generate_assign(exp, g) ==
    copy_value(generate_tacky_for_expression(exp.right, g), ValVar(exp.left.name))

\* the Conditional arm
generate_conditional(exp, g) ==
    LET t == make_temporary(g.counter)
        result_var == ValVar(t.name)
        else_label == make_label_with_prefix("cond_else", g.label_counter)
        end_label == make_label_with_prefix("cond_end", else_label.label_counter)
        g0 == [g EXCEPT !.counter = t.counter,
                        !.label_counter = end_label.label_counter]
        g1 == generate_tacky_for_expression(exp.condition, g0)
        g2 == jump_if_zero(g1, else_label.label)
        g3 == generate_tacky_for_expression(exp.left, g2)
        g4 == copy_value(g3, result_var)
        g5 == Push(g4, Jump(end_label.label))
        g6 == Push(g5, Label(else_label.label))
        g7 == generate_tacky_for_expression(exp.right, g6)
        g8 == copy_value(g7, result_var)
        g9 == Push(g8, Label(end_label.label))
    IN Ok(result_var, g9)

generate_tacky_for_expression(exp, g) ==
    CASE exp.kind = "Var" -> Ok(ValVar(exp.name), g)
      [] exp.kind = "Assign" -> generate_assign(exp, g)
      [] exp.kind = "Conditional" -> generate_conditional(exp, g)
      [] exp.kind = "Constant" -> Ok(ValConstant(exp.value), g)
      [] exp.kind = "Unary" -> generate_unary(exp, g)
      [] exp.kind = "Binary" /\ exp.operator = "And" -> generate_and(exp, g)
      [] exp.kind = "Binary" /\ exp.operator = "Or" -> generate_or(exp, g)
      [] exp.kind = "Binary" /\ exp.operator \notin {"And", "Or"} -> generate_binary(exp, g)
      [] exp.kind = "FunctionCall" -> generate_call(exp, g)

\* the variables and the functions the expression may name
ProgVars == {"a"}

Callees == {"f"}

Values == 0..MaxConst

Operands0 ==
    {ExpConstant(i) : i \in Values} \cup {ExpVar(v) : v \in ProgVars}
        \cup {ExpFunctionCall(f, <<>>) : f \in Callees}

Operands1 ==
    Operands0 \cup {ExpUnary("Not", e) : e \in Operands0}
        \cup {ExpBinary(o, l, r) : o \in {"And", "Or", "Add"}, l \in Operands0, r \in Operands0}

Expressions == {ExpBinary(o, l, r) : o \in {"And", "Or"}, l \in Operands1, r \in Operands1}

\* the generator has been used by the passes before, and the IR generator by
\* the expressions before this one
InitLower ==
    /\ counter \in {0, MaxStartId}
    /\ label_counter \in {0, MaxStartLabel}
    /\ ResolverNew
    /\ LabelerNew
    /\ LowerIdle
    /\ AsmNew
    /\ AllocNew
    /\ PipeNew
    /\ CheckerNew
    /\ ControlNew
    /\ ProgramNew

\* where generate_tacky_for_expression puts the operands of the outermost
\* operator of exp: the left operand's code, one test, the right operand's code
ShapeOf(exp, g) ==
    LET t == make_temporary(g.counter)
        g0 == [g EXCEPT !.counter = t.counter, !.label_counter = g.label_counter + 2]
        g1 == generate_tacky_for_expression(exp.left, g0)
        g3 == generate_tacky_for_expression(exp.right, Push(g1, Label("test")))
    IN [op |-> exp.operator,
        test |-> Len(g1.instructions) + 1,
        rlo |-> Len(g1.instructions) + 2,
        rhi |-> Len(g3.instructions),
        left |-> g1.val]

\* generate_tacky_for_expression on one expression, into an empty list; the
\* code is then run from its first instruction, the variables holding any values
GenerateExpression ==
    /\ tstate = "new"
    /\ \E exp \in Expressions : \E vals \in [ProgVars -> Values] :
          LET g == generate_tacky_for_expression(exp, Gen(<<>>, counter, label_counter))
          IN /\ instructions' = g.instructions
             /\ tval' = g.val
             /\ counter' = g.counter
             /\ label_counter' = g.label_counter
             /\ texp' = exp
             /\ shape' = ShapeOf(exp, Gen(<<>>, counter, label_counter))
             /\ env' = vals
    /\ tstate' = "emitted"
    /\ pc' = 1
    /\ UNCHANGED <<executed, lval>>
    /\ UNCHANGED notLower

(***************************************************************************)
(* ir/tacky.rs: the meaning of the instructions, one action for each.      *)
(***************************************************************************)
ValueOf(val, e) == IF val.kind = "Constant" THEN val.value ELSE e[val.name]

Store(e, dst, x) == [n \in DOMAIN e \cup {dst.name} |-> IF n = dst.name THEN x ELSE e[n]]

LabelIndex(ins, name) ==
    CHOOSE i \in 1..Len(ins) :
        /\ ins[i].op = "Label" /\ ins[i].name = name
        /\ \A j \in 1..(i - 1) : ~(ins[j].op = "Label" /\ ins[j].name = name)

At(op) ==
    /\ tstate = "emitted"
    /\ pc \in 1..Len(instructions)
    /\ instructions[pc].op = op

\* ghost: the instruction at pc has been executed
Ran ==
    /\ executed' = executed \cup {pc}
    /\ lval' = IF pc = shape.test THEN <<ValueOf(shape.left, env)>> ELSE lval
    /\ UNCHANGED <<counter, label_counter, texp, instructions, tval, tstate, shape>>
    /\ UNCHANGED notLower

ApplyUnary(operator, x) ==
    CASE operator = "Not" -> IF x = 0 THEN 1 ELSE 0
      [] operator = "Negate" -> 0 - x

ApplyBinary(operator, x, y) ==
    CASE operator = "Add" -> x + y
      [] operator = "Subtract" -> x - y
      [] operator = "Equal" -> IF x = y THEN 1 ELSE 0

ExecUnary ==
    /\ At("Unary")
    /\ LET i == instructions[pc]
       IN env' = Store(env, i.dst, ApplyUnary(i.operator, ValueOf(i.src, env)))
    /\ pc' = pc + 1
    /\ Ran

ExecBinary ==
    /\ At("Binary")
    /\ LET i == instructions[pc]
       IN env' = Store(env, i.dst,
                       ApplyBinary(i.operator, ValueOf(i.src1, env), ValueOf(i.src2, env)))
    /\ pc' = pc + 1
    /\ Ran

ExecCopy ==
    /\ At("Copy")
    /\ LET i == instructions[pc]
       IN env' = Store(env, i.dst, ValueOf(i.src, env))
    /\ pc' = pc + 1
    /\ Ran

ExecJump ==
    /\ At("Jump")
    /\ pc' = LabelIndex(instructions, instructions[pc].target)
    /\ UNCHANGED env
    /\ Ran

ExecJumpIfZero ==
    /\ At("JumpIfZero")
    /\ LET i == instructions[pc]
       IN pc' = IF ValueOf(i.condition, env) = 0
                THEN LabelIndex(instructions, i.target) ELSE pc + 1
    /\ UNCHANGED env
    /\ Ran

ExecJumpIfNotZero ==
    /\ At("JumpIfNotZero")
    /\ LET i == instructions[pc]
       IN pc' = IF ValueOf(i.condition, env) # 0
                THEN LabelIndex(instructions, i.target) ELSE pc + 1
    /\ UNCHANGED env
    /\ Ran

ExecLabel ==
    /\ At("Label")
    /\ pc' = pc + 1
    /\ UNCHANGED env
    /\ Ran

\* the callee is another function: it may return any value
ExecFunCall(returned) ==
    /\ At("FunCall")
    /\ env' = Store(env, instructions[pc].dst, returned)
    /\ pc' = pc + 1
    /\ Ran

\* control has left the expression's code
ExecEnd ==
    /\ tstate = "emitted"
    /\ pc = Len(instructions) + 1
    /\ tstate' = "done"
    /\ UNCHANGED <<counter, label_counter, texp, instructions, tval, pc, env, executed, shape, lval>>
    /\ UNCHANGED notLower

NextLower ==
    \/ GenerateExpression
    \/ ExecUnary
    \/ ExecBinary
    \/ ExecCopy
    \/ ExecJump
    \/ ExecJumpIfZero
    \/ ExecJumpIfNotZero
    \/ ExecLabel
    \/ \E returned \in Values : ExecFunCall(returned)
    \/ ExecEnd

SpecLower == InitLower /\ [][NextLower]_vars

(***************************************************************************)
(* backend/asm_gen.rs, pass 1: convert_funcall.  The call given has up to  *)
(* MaxArgs arguments, each a constant or a variable, the i-th one named    *)
(* after i so that the order of the arguments can be told.                 *)
(***************************************************************************)
Imm(i) == [kind |-> "Imm", value |-> i]

Reg(r) == [kind |-> "Reg", reg |-> r]

Pseudo(name) == [kind |-> "Pseudo", name |-> name]

Mov(src, dst) == [op |-> "Mov", src |-> src, dst |-> dst]

AllocateStack(bytes) == [op |-> "AllocateStack", bytes |-> bytes]

DeallocateStack(bytes) == [op |-> "DeallocateStack", bytes |-> bytes]

AsmPush(operand) == [op |-> "Push", operand |-> operand]

Call(name) == [op |-> "Call", name |-> name]

convert_tacky_val(val) ==
    IF val.kind = "Constant" THEN Imm(val.value) ELSE Pseudo(val.name)

arg_registers == <<"DI", "SI", "DX", "CX", "R8", "R9">>

\* args.split_at(6), the first half
register_args(args) == IF Len(args) > 6 THEN SubSeq(args, 1, 6) ELSE args

\* args.split_at(6), the second half
stack_args(args) == IF Len(args) > 6 THEN SubSeq(args, 7, Len(args)) ELSE <<>>

\* a call site that never pads
stack_padding_never(sargs) == 0

stack_padding(sargs) == IF sargs # <<>> /\ Len(sargs) % 2 # 0 THEN 8 ELSE 0

\* stack arguments taken first to last
rev_forward(sargs) == sargs

\* stack_args.iter().rev()
rev(sargs) == [i \in 1..Len(sargs) |-> sargs[Len(sargs) + 1 - i]]

\* a loop body that takes an argument in memory through DI
push_stack_arg_through_di(arg) ==
    LET assembly_arg == convert_tacky_val(arg)
    IN IF assembly_arg.kind \in {"Imm", "Reg"}
       THEN <<AsmPush(assembly_arg)>>
       ELSE <<Mov(assembly_arg, Reg("DI")), AsmPush(Reg("DI"))>>

\* the body of the loop over the stack arguments
push_stack_arg(arg) ==
    LET assembly_arg == convert_tacky_val(arg)
    IN IF assembly_arg.kind \in {"Imm", "Reg"}
       THEN <<AsmPush(assembly_arg)>>
       ELSE <<Mov(assembly_arg, Reg("AX")), AsmPush(Reg("AX"))>>

RECURSIVE push_stack_args(_, _)
\* the loop over the stack arguments, from the i-th of those it is given
push_stack_args(sargs, i) ==
    IF i > Len(sargs) THEN <<>>
    ELSE push_stack_arg(sargs[i]) \o push_stack_args(sargs, i + 1)

convert_funcall(name, args, dst, ins) ==
    LET padding == stack_padding(stack_args(args))
        i1 == IF padding > 0 THEN Append(ins, AllocateStack(padding)) ELSE ins
        i2 == i1 \o [i \in 1..Len(register_args(args)) |->
                        Mov(convert_tacky_val(register_args(args)[i]), Reg(arg_registers[i]))]
        i3 == i2 \o push_stack_args(rev(stack_args(args)), 1)
        i4 == Append(i3, Call(name))
        bytes_to_remove == Len(stack_args(args)) * 8 + padding
        i5 == IF bytes_to_remove > 0 THEN Append(i4, DeallocateStack(bytes_to_remove)) ELSE i4
    IN Append(i5, Mov(Reg("AX"), convert_tacky_val(dst)))

\* the i-th argument of a call: the constant i, or a variable named after i
MkArg(kind, i) ==
    IF kind = "Constant" THEN ValConstant(i) ELSE ValVar("arg." \o FormatId(i))

ArgLists ==
    UNION {{[i \in 1..n |-> MkArg(kinds[i], i)] : kinds \in [1..n -> {"Constant", "Var"}]} :
           n \in 0..MaxArgs}

InitAsm ==
    /\ counter \in {0, MaxStartId}
    /\ label_counter = 0
    /\ ResolverNew
    /\ LabelerNew
    /\ LowerIdle
    /\ AsmNew
    /\ AllocNew
    /\ PipeNew
    /\ CheckerNew
    /\ ControlNew
    /\ ProgramNew

\* convert_tacky_to_asm_pass1 on a FunCall: convert_funcall into an empty list;
\* the code is then run from its first instruction
ConvertFunCall ==
    /\ astate = "new"
    /\ \E args \in ArgLists :
          LET call == FunCall("f", args, ValVar("tmp.0"))
          IN /\ acall' = call
             /\ asm' = convert_funcall(call.name, call.args, call.dst, <<>>)
    /\ astate' = "emitted"
    /\ apc' = 1
    /\ UNCHANGED <<sp, cells, pushed, snaps>>
    /\ UNCHANGED notAsm

(***************************************************************************)
(* ir/assembly.rs: the meaning of the instructions a call site is made of. *)
(***************************************************************************)
\* what an operand holds; a pseudo-register not written yet holds its own,
\* unknown, value
Holds(operand, c) ==
    CASE operand.kind = "Imm" -> operand
      [] operand.kind = "Reg" -> c[operand.reg]
      [] operand.kind = "Pseudo" ->
            IF operand.name \in DOMAIN c THEN c[operand.name] ELSE operand

CellOf(operand) == IF operand.kind = "Reg" THEN operand.reg ELSE operand.name

Write(c, operand, x) ==
    [n \in DOMAIN c \cup {CellOf(operand)} |-> IF n = CellOf(operand) THEN x ELSE c[n]]

AsmAt(op) ==
    /\ astate = "emitted"
    /\ apc \in 1..Len(asm)
    /\ asm[apc].op = op

AsmRan ==
    /\ apc' = apc + 1
    /\ UNCHANGED <<acall, asm, astate>>
    /\ UNCHANGED notAsm

RunMov ==
    /\ AsmAt("Mov")
    /\ cells' = Write(cells, asm[apc].dst, Holds(asm[apc].src, cells))
    /\ UNCHANGED <<sp, pushed, snaps>>
    /\ AsmRan

RunAllocateStack ==
    /\ AsmAt("AllocateStack")
    /\ sp' = sp + asm[apc].bytes
    /\ UNCHANGED <<cells, pushed, snaps>>
    /\ AsmRan

RunDeallocateStack ==
    /\ AsmAt("DeallocateStack")
    /\ sp' = sp - asm[apc].bytes
    /\ UNCHANGED <<cells, pushed, snaps>>
    /\ AsmRan

\* pushq: 8 bytes
RunPush ==
    /\ AsmAt("Push")
    /\ sp' = sp + 8
    /\ pushed' = Append(pushed, Holds(asm[apc].operand, cells))
    /\ UNCHANGED <<cells, snaps>>
    /\ AsmRan

\* the callee returns its result in AX
RunCall ==
    /\ AsmAt("Call")
    /\ snaps' = Append(snaps, [sp |-> sp, cells |-> cells, pushed |-> pushed])
    /\ cells' = Write(cells, Reg("AX"), [kind |-> "Returned", name |-> asm[apc].name])
    /\ UNCHANGED <<sp, pushed>>
    /\ AsmRan

\* control has left the call site's code
RunEnd ==
    /\ astate = "emitted"
    /\ apc = Len(asm) + 1
    /\ astate' = "done"
    /\ UNCHANGED <<acall, asm, apc, sp, cells, pushed, snaps>>
    /\ UNCHANGED notAsm

NextAsm ==
    \/ ConvertFunCall
    \/ RunMov
    \/ RunAllocateStack
    \/ RunDeallocateStack
    \/ RunPush
    \/ RunCall
    \/ RunEnd

SpecAsm == InitAsm /\ [][NextAsm]_vars

(***************************************************************************)
(* backend/asm_gen.rs, generate_assembly on one function: pass 1 over its  *)
(* parameters and the instructions of its body, then pass 2 and pass 3     *)
(* over the list pass 1 returned.  The body is the sequence of tacky       *)
(* instructions the pass 1 actions choose, MaxBody of them at most.        *)
(***************************************************************************)
Stack(offset) == [kind |-> "Stack", offset |-> offset]

AsmUnary(operator, operand) == [op |-> "Unary", operator |-> operator, operand |-> operand]

AsmBinary(operator, src, dst) ==
    [op |-> "Binary", operator |-> operator, src |-> src, dst |-> dst]

Cmp(src1, src2) == [op |-> "Cmp", src1 |-> src1, src2 |-> src2]

Idiv(operand) == [op |-> "Idiv", operand |-> operand]

Cdq == [op |-> "Cdq"]

Ret == [op |-> "Ret"]

Jmp(target) == [op |-> "Jmp", target |-> target]

JmpCC(cond_code, target) == [op |-> "JmpCC", cond_code |-> cond_code, target |-> target]

SetCC(cond_code, operand) == [op |-> "SetCC", cond_code |-> cond_code, operand |-> operand]

AsmLabel(name) == [op |-> "Label", name |-> name]

RECURSIVE copy_params_to_pseudo(_, _, _)
\* the loop over the parameters, from the i-th (counted from 0, as enumerate does)
copy_params_to_pseudo(params, i, ins) ==
    IF i >= Len(params) THEN ins
    ELSE LET src_operand == IF i < 6 THEN Reg(arg_registers[i + 1])
                            ELSE Stack(16 + (i - 6) * 8)
         IN copy_params_to_pseudo(params, i + 1,
                                  Append(ins, Mov(src_operand, Pseudo(params[i + 1]))))

convert_unary_op(operator, src, dst) ==
    LET dst_operand == convert_tacky_val(dst)
    IN IF operator = "Not"
       THEN <<Cmp(Imm(0), convert_tacky_val(src)),
              Mov(Imm(0), dst_operand),
              SetCC("E", dst_operand)>>
       ELSE <<Mov(convert_tacky_val(src), dst_operand),
              AsmUnary(IF operator = "Negate" THEN "Neg" ELSE "Not", dst_operand)>>

Relational ==
    {"Equal", "NotEqual", "LessThan", "LessOrEqual", "GreaterThan", "GreaterEqual"}

CondCodeOf(operator) ==
    CASE operator = "Equal" -> "E"
      [] operator = "NotEqual" -> "NE"
      [] operator = "LessThan" -> "L"
      [] operator = "LessOrEqual" -> "LE"
      [] operator = "GreaterThan" -> "G"
      [] operator = "GreaterEqual" -> "GE"

convert_binary_op(operator, src1, src2, dst) ==
    LET dst_operand == convert_tacky_val(dst)
        src1_operand == convert_tacky_val(src1)
        src2_operand == convert_tacky_val(src2)
    IN CASE operator \in Relational ->
              <<Cmp(src2_operand, src1_operand),
                Mov(Imm(0), dst_operand),
                SetCC(CondCodeOf(operator), dst_operand)>>
         [] operator = "Divide" ->
              <<Mov(src1_operand, Reg("AX")), Cdq, Idiv(src2_operand),
                Mov(Reg("AX"), dst_operand)>>
         [] operator = "Remainder" ->
              <<Mov(src1_operand, Reg("AX")), Cdq, Idiv(src2_operand),
                Mov(Reg("DX"), dst_operand)>>
         [] operator \in {"Add", "Subtract", "Multiply"} ->
              <<Mov(src1_operand, dst_operand),
                AsmBinary(operator, src2_operand, dst_operand)>>

\* the body of the loop of convert_tacky_to_asm_pass1: what one tacky
\* instruction appends
convert_instruction(t, ins) ==
    CASE t.op = "FunCall" -> convert_funcall(t.name, t.args, t.dst, ins)
      [] t.op = "Return" -> ins \o <<Mov(convert_tacky_val(t.val), Reg("AX")), Ret>>
      [] t.op = "Copy" -> Append(ins, Mov(convert_tacky_val(t.src), convert_tacky_val(t.dst)))
      [] t.op = "Jump" -> Append(ins, Jmp(t.target))
      [] t.op = "Label" -> Append(ins, AsmLabel(t.name))
      [] t.op = "JumpIfZero" ->
            ins \o <<Cmp(Imm(0), convert_tacky_val(t.condition)), JmpCC("E", t.target)>>
      [] t.op = "JumpIfNotZero" ->
            ins \o <<Cmp(Imm(0), convert_tacky_val(t.condition)), JmpCC("NE", t.target)>>
      [] t.op = "Unary" -> ins \o convert_unary_op(t.operator, t.src, t.dst)
      [] t.op = "Binary" -> ins \o convert_binary_op(t.operator, t.src1, t.src2, t.dst)

\* the values and the destinations of the function's tacky instructions
Srcs == {ValConstant(1), ValVar("a")}

Dsts == {ValVar("b")}

\* the parameter lists of the function: none, one, and one more than the registers
ParamsOf == {<<>>, <<"a">>, <<"p1", "p2", "p3", "p4", "p5", "p6", "a">>}

\* the argument lists of its calls: none, one, and one more than the registers,
\* the last being a variable or a constant
CallArgs ==
    {<<>>, <<ValVar("a")>>,
     [i \in 1..7 |-> IF i = 7 THEN ValVar("a") ELSE ValConstant(1)],
     [i \in 1..7 |-> ValConstant(1)]}

InitAlloc ==
    /\ counter \in {0, MaxStartId}
    /\ label_counter = 0
    /\ ResolverNew
    /\ LabelerNew
    /\ LowerIdle
    /\ AsmNew
    /\ AllocNew
    /\ PipeNew
    /\ CheckerNew
    /\ ControlNew
    /\ ProgramNew

\* convert_tacky_to_asm_pass1, up to its loop: copy_params_to_pseudo
Pass1Begin ==
    /\ fstate = "new"
    /\ \E params \in ParamsOf :
          /\ tparams' = params
          /\ finstr' = copy_params_to_pseudo(params, 0, <<>>)
    /\ fstate' = "pass1"
    /\ UNCHANGED <<nbody, pidx, var_map, current_offset, stack_bytes, new_instructions,
                   pass1out, lastFix>>
    /\ UNCHANGED notAlloc

\* the loop of pass 1 has a tacky instruction to take
InPass1 == fstate = "pass1" /\ nbody < MaxBody

\* one turn of the loop of pass 1, on the tacky instruction t
Pass1(t) ==
    /\ nbody' = nbody + 1
    /\ finstr' = convert_instruction(t, finstr)
    /\ UNCHANGED <<tparams, fstate, pidx, var_map, current_offset, stack_bytes,
                   new_instructions, pass1out, lastFix>>
    /\ UNCHANGED notAlloc

Pass1FunCall ==
    /\ InPass1
    /\ \E args \in CallArgs : \E dst \in Dsts :
          Pass1(FunCall("f", args, dst))

Pass1Return ==
    /\ InPass1
    /\ \E val \in Srcs :
          Pass1(Return(val))

Pass1Copy ==
    /\ InPass1
    /\ \E src \in Srcs : \E dst \in Dsts :
          Pass1(Copy(src, dst))

Pass1Jump ==
    /\ InPass1
    /\ Pass1(Jump("_l"))

Pass1Label ==
    /\ InPass1
    /\ Pass1(Label("_l"))

Pass1JumpIfZero ==
    /\ InPass1
    /\ \E condition \in Srcs :
          Pass1(JumpIfZero(condition, "_l"))

Pass1JumpIfNotZero ==
    /\ InPass1
    /\ \E condition \in Srcs :
          Pass1(JumpIfNotZero(condition, "_l"))

Pass1Unary ==
    /\ InPass1
    /\ \E operator \in {"Not", "Negate", "Complement"} : \E src \in Srcs : \E dst \in Dsts :
          Pass1(Unary(operator, src, dst))

Pass1Binary ==
    /\ InPass1
    /\ \E operator \in {"Add", "Subtract", "Multiply", "Divide", "Remainder", "LessThan"} :
          \E src1 \in Srcs : \E src2 \in Srcs : \E dst \in Dsts :
             Pass1(Binary(operator, src1, src2, dst))

\* convert_tacky_to_asm_pass1 returns the function; pass 2 starts on it
Pass1End ==
    /\ fstate = "pass1"
    /\ pass1out' = finstr
    /\ fstate' = "pass2"
    /\ pidx' = 1
    /\ UNCHANGED <<tparams, nbody, finstr, var_map, current_offset, stack_bytes,
                   new_instructions, lastFix>>
    /\ UNCHANGED notAlloc

\* an assignment that leaves the operand as it is
assign_stack_offset_skip(operand, vm, off) ==
    [operand |-> operand, var_map |-> vm, current_offset |-> off]

\* an assignment that gives every occurrence a slot of its own
assign_stack_offset_fresh(operand, vm, off) ==
    IF operand.kind = "Pseudo"
    THEN [operand |-> Stack(off - 4),
          var_map |-> [n \in DOMAIN vm \cup {operand.name} |->
                          IF n = operand.name THEN off - 4 ELSE vm[n]],
          current_offset |-> off - 4]
    ELSE [operand |-> operand, var_map |-> vm, current_offset |-> off]

\* assign_stack_offset: var_map.entry(name).or_insert_with(...), and the
\* operand becomes the stack slot
assign_stack_offset(operand, vm, off) ==
    IF operand.kind = "Pseudo"
    THEN IF operand.name \in DOMAIN vm
         THEN [operand |-> Stack(vm[operand.name]), var_map |-> vm, current_offset |-> off]
         ELSE [operand |-> Stack(off - 4),
               var_map |-> [n \in DOMAIN vm \cup {operand.name} |->
                               IF n = operand.name THEN off - 4 ELSE vm[n]],
               current_offset |-> off - 4]
    ELSE [operand |-> operand, var_map |-> vm, current_offset |-> off]

\* the body of the loop of replace_pseudo_with_stack_pass2: the instruction
\* with its operands assigned, and the map and the offset after it
pass2_instruction(inst, vm, off) ==
    CASE inst.op \in {"Mov", "Binary"} ->
            LET a == assign_stack_offset(inst.src, vm, off)
                b == assign_stack_offset(inst.dst, a.var_map, a.current_offset)
            IN [inst |-> [inst EXCEPT !.src = a.operand, !.dst = b.operand],
                var_map |-> b.var_map, current_offset |-> b.current_offset]
      [] inst.op \in {"Unary", "Idiv", "SetCC", "Push"} ->
            LET a == assign_stack_offset(inst.operand, vm, off)
            IN [inst |-> [inst EXCEPT !.operand = a.operand],
                var_map |-> a.var_map, current_offset |-> a.current_offset]
      [] inst.op = "Cmp" ->
            LET a == assign_stack_offset(inst.src1, vm, off)
                b == assign_stack_offset(inst.src2, a.var_map, a.current_offset)
            IN [inst |-> [inst EXCEPT !.src1 = a.operand, !.src2 = b.operand],
                var_map |-> b.var_map, current_offset |-> b.current_offset]
      [] OTHER -> [inst |-> inst, var_map |-> vm, current_offset |-> off]

\* one turn of the loop of pass 2, on an instruction of the kind op
InPass2(ops) ==
    /\ fstate = "pass2"
    /\ pidx \in 1..Len(finstr)
    /\ finstr[pidx].op \in ops

Pass2 ==
    /\ LET r == pass2_instruction(finstr[pidx], var_map, current_offset)
       IN /\ finstr' = [finstr EXCEPT ![pidx] = r.inst]
          /\ var_map' = r.var_map
          /\ current_offset' = r.current_offset
    /\ pidx' = pidx + 1
    /\ UNCHANGED <<tparams, nbody, fstate, stack_bytes, new_instructions, pass1out, lastFix>>
    /\ UNCHANGED notAlloc

Pass2Mov ==
    /\ InPass2({"Mov"})
    /\ Pass2

Pass2Unary ==
    /\ InPass2({"Unary"})
    /\ Pass2

Pass2Binary ==
    /\ InPass2({"Binary"})
    /\ Pass2

Pass2Idiv ==
    /\ InPass2({"Idiv"})
    /\ Pass2

Pass2Cmp ==
    /\ InPass2({"Cmp"})
    /\ Pass2

Pass2SetCC ==
    /\ InPass2({"SetCC"})
    /\ Pass2

Pass2Push ==
    /\ InPass2({"Push"})
    /\ Pass2

Pass2Other ==
    /\ InPass2({"Ret", "Cdq", "Jmp", "JmpCC", "Label", "Call", "AllocateStack",
                "DeallocateStack"})
    /\ Pass2

\* current_offset.abs() as u32
abs(x) == IF x < 0 THEN 0 - x ELSE x

\* replace_pseudo_with_stack_pass2 returns; pass 3 starts
Pass2End ==
    /\ fstate = "pass2"
    /\ pidx = Len(finstr) + 1
    /\ stack_bytes' = abs(current_offset)
    /\ fstate' = "pass3"
    /\ pidx' = 0
    /\ UNCHANGED <<tparams, nbody, finstr, var_map, current_offset, new_instructions,
                   pass1out, lastFix>>
    /\ UNCHANGED notAlloc

\* a frame of the byte total itself, not rounded
aligned_bytes_exact(bytes) == bytes

\* (stack_bytes + 15) & !15; the u32 sum does not wrap for the frames a
\* function of MaxBody instructions can need
aligned_bytes(bytes) ==
    LET sum == bytes + 15
    IN sum - (sum % 16)

\* the arm of the match of fixup_instructions_pass3 that takes inst: the first
\* whose pattern fits
ArmOf(inst) ==
    CASE inst.op = "Mov" /\ inst.src.kind = "Stack" /\ inst.dst.kind = "Stack" -> "Mov"
      [] inst.op = "Binary" /\ inst.operator \in {"Add", "Subtract"}
            /\ inst.src.kind = "Stack" /\ inst.dst.kind = "Stack" -> "AddSub"
      [] inst.op = "Binary" /\ inst.operator = "Multiply" /\ inst.dst.kind = "Stack" ->
            "Multiply"
      [] inst.op = "Idiv" /\ inst.operand.kind = "Imm" -> "Idiv"
      [] inst.op = "Cmp" -> "Cmp"
      [] inst.op = "Push" /\ inst.operand.kind = "Imm" -> "Push"
      [] OTHER -> "Other"

\* a Cmp arm that copies the compare
fixup_cmp_copy(inst) == <<inst>>

\* the Cmp arm
fixup_cmp(inst) ==
    LET both == inst.src1.kind = "Stack" /\ inst.src2.kind = "Stack"
        s1 == IF both THEN Reg("R10") ELSE inst.src1
        imm == inst.src2.kind = "Imm"
        s2 == IF imm THEN Reg("R11") ELSE inst.src2
    IN (IF both THEN <<Mov(inst.src1, Reg("R10"))>> ELSE <<>>)
         \o (IF imm THEN <<Mov(inst.src2, Reg("R11"))>> ELSE <<>>)
         \o <<Cmp(s1, s2)>>

\* the body of the loop of fixup_instructions_pass3: what is pushed for inst
fixup_instruction(inst) ==
    CASE ArmOf(inst) = "Mov" ->
            <<Mov(inst.src, Reg("R10")), Mov(Reg("R10"), inst.dst)>>
      [] ArmOf(inst) = "AddSub" ->
            <<Mov(inst.src, Reg("R10")), AsmBinary(inst.operator, Reg("R10"), inst.dst)>>
      [] ArmOf(inst) = "Multiply" ->
            <<Mov(inst.dst, Reg("R11")),
              AsmBinary("Multiply", inst.src, Reg("R11")),
              Mov(Reg("R11"), inst.dst)>>
      [] ArmOf(inst) = "Idiv" ->
            <<Mov(inst.operand, Reg("R10")), Idiv(Reg("R10"))>>
      [] ArmOf(inst) = "Cmp" -> fixup_cmp(inst)
      [] ArmOf(inst) = "Push" ->
            <<Mov(inst.operand, Reg("R10")), AsmPush(Reg("R10"))>>
      [] ArmOf(inst) = "Other" -> <<inst>>

\* fixup_instructions_pass3, up to its loop: the AllocateStack of the prologue
Pass3Begin ==
    /\ fstate = "pass3"
    /\ pidx = 0
    /\ new_instructions' = IF stack_bytes > 0
                           THEN <<AllocateStack(aligned_bytes(stack_bytes))>> ELSE <<>>
    /\ pidx' = 1
    /\ UNCHANGED <<tparams, nbody, finstr, fstate, var_map, current_offset, stack_bytes,
                   pass1out, lastFix>>
    /\ UNCHANGED notAlloc

\* one turn of the loop of pass 3, on an instruction the given arm takes
InPass3(arm) ==
    /\ fstate = "pass3"
    /\ pidx \in 1..Len(finstr)
    /\ ArmOf(finstr[pidx]) = arm

Pass3 ==
    /\ new_instructions' = new_instructions \o fixup_instruction(finstr[pidx])
    /\ lastFix' = [of |-> finstr[pidx], out |-> fixup_instruction(finstr[pidx])]
    /\ pidx' = pidx + 1
    /\ UNCHANGED <<tparams, nbody, finstr, fstate, var_map, current_offset, stack_bytes,
                   pass1out>>
    /\ UNCHANGED notAlloc

Pass3Mov ==
    /\ InPass3("Mov")
    /\ Pass3

Pass3AddSub ==
    /\ InPass3("AddSub")
    /\ Pass3

Pass3Multiply ==
    /\ InPass3("Multiply")
    /\ Pass3

Pass3Idiv ==
    /\ InPass3("Idiv")
    /\ Pass3

Pass3Cmp ==
    /\ InPass3("Cmp")
    /\ Pass3

Pass3Push ==
    /\ InPass3("Push")
    /\ Pass3

Pass3Other ==
    /\ InPass3("Other")
    /\ Pass3

\* asm_func.instructions = new_instructions
Pass3End ==
    /\ fstate = "pass3"
    /\ pidx = Len(finstr) + 1
    /\ finstr' = new_instructions
    /\ fstate' = "done"
    /\ UNCHANGED <<tparams, nbody, pidx, var_map, current_offset, stack_bytes,
                   new_instructions, pass1out, lastFix>>
    /\ UNCHANGED notAlloc

NextAlloc ==
    \/ Pass1Begin
    \/ Pass1FunCall
    \/ Pass1Return
    \/ Pass1Copy
    \/ Pass1Jump
    \/ Pass1Label
    \/ Pass1JumpIfZero
    \/ Pass1JumpIfNotZero
    \/ Pass1Unary
    \/ Pass1Binary
    \/ Pass1End
    \/ Pass2Mov
    \/ Pass2Unary
    \/ Pass2Binary
    \/ Pass2Idiv
    \/ Pass2Cmp
    \/ Pass2SetCC
    \/ Pass2Push
    \/ Pass2Other
    \/ Pass2End
    \/ Pass3Begin
    \/ Pass3Mov
    \/ Pass3AddSub
    \/ Pass3Multiply
    \/ Pass3Idiv
    \/ Pass3Cmp
    \/ Pass3Push
    \/ Pass3Other
    \/ Pass3End

SpecAlloc == InitAlloc /\ [][NextAlloc]_vars

(***************************************************************************)
(* main.rs: run_pipeline, from the parsed tree on.  The program is given   *)
(* by the set of passes that find an error in it; a pass returns Err       *)
(* exactly when it is in that set.                                         *)
(***************************************************************************)
Passes == <<"Validator", "TypeChecker", "LoopLabeler", "TackyGenerator", "AsmGenerator">>

PassSet == {Passes[i] : i \in 1..Len(Passes)}

HaltFlags == {"validate", "tacky", "codegen"}

\* a pass whose error is never looked at
Failed_ignored(pass) == FALSE

\* the `?` after the call of a pass: the pass returned Err
Failed(pass) == pass \in pdefects

InitPipeline ==
    /\ counter = 0
    /\ label_counter = 0
    /\ ResolverNew
    /\ LabelerNew
    /\ LowerIdle
    /\ AsmNew
    /\ AllocNew
    /\ CheckerNew
    /\ ControlNew
    /\ ProgramNew
    /\ pdefects \in SUBSET PassSet
    /\ pcli \in SUBSET HaltFlags
    /\ pstage = "parsed"
    /\ presult = "none"
    /\ ran = <<>>
    /\ tacky_ir = FALSE
    /\ asm_ast = FALSE

\* one call of a pass followed by `?`, and the halting flag tested after it
Stage(from, pass, to, flag, binds) ==
    /\ pstage = from
    /\ ran' = Append(ran, pass)
    /\ IF Failed(pass)
       THEN /\ pstage' = "returned"
            /\ presult' = "Err"
            /\ UNCHANGED <<tacky_ir, asm_ast>>
       ELSE /\ tacky_ir' = (tacky_ir \/ binds = "tacky_ir")
            /\ asm_ast' = (asm_ast \/ binds = "asm_ast")
            /\ IF flag \in pcli
               THEN pstage' = "returned" /\ presult' = "Ok"
               ELSE pstage' = to /\ UNCHANGED presult
    /\ UNCHANGED <<pdefects, pcli>>
    /\ UNCHANGED notPipe

\* validator.validate_program(c_ast)?
PipeValidator ==
    /\ pstage = "parsed"
    /\ Stage("parsed", "Validator", "resolved", "none", "none")

\* type_checker.check_program(&name_resolved_ast)?
PipeTypeChecker ==
    /\ pstage = "resolved"
    /\ Stage("resolved", "TypeChecker", "typed", "none", "none")

\* labeler.label_program(name_resolved_ast)?, and cli.validate
PipeLoopLabeler ==
    /\ pstage = "typed"
    /\ Stage("typed", "LoopLabeler", "labeled", "validate", "none")

\* tacky_generator.generate_tacky(checked_ast)?, and cli.tacky
PipeTackyGenerator ==
    /\ pstage = "labeled"
    /\ Stage("labeled", "TackyGenerator", "lowered", "tacky", "tacky_ir")

\* asm_generator.generate_assembly(tacky_ir)?, and cli.codegen
PipeAsmGenerator ==
    /\ pstage = "lowered"
    /\ Stage("lowered", "AsmGenerator", "selected", "codegen", "asm_ast")

\* the end of run_pipeline
PipeReturn ==
    /\ pstage = "selected"
    /\ pstage' = "returned"
    /\ presult' = "Ok"
    /\ UNCHANGED <<pdefects, pcli, ran, tacky_ir, asm_ast>>
    /\ UNCHANGED notPipe

NextPipeline ==
    \/ PipeValidator
    \/ PipeTypeChecker
    \/ PipeLoopLabeler
    \/ PipeTackyGenerator
    \/ PipeAsmGenerator
    \/ PipeReturn

SpecPipeline == InitPipeline /\ [][NextPipeline]_vars

(***************************************************************************)
(* semantics/type_checker.rs, run on what the resolver returns.  Both      *)
(* passes walk the program once in source order, so they are run together: *)
(* each construct is resolved, and what the resolver makes of it is        *)
(* checked.  A run stops at the first error of either pass.                *)
(***************************************************************************)
MaxChecked == 3

MaxCallArgs == 2

MaxDepth == 2

\* CType
CInt == [kind |-> "Int"]

CFunction(param_count) == [kind |-> "Function", param_count |-> param_count]

Symbol(c_type, defined) == [c_type |-> c_type, defined |-> defined]

\* self.symbols.get(name)
symbols_get(syms, name) == IF name \in DOMAIN syms THEN syms[name] ELSE NoSymbol

\* self.symbols.insert(name, symbol)
symbols_insert(syms, name, symbol) ==
    [n \in DOMAIN syms \cup {name} |-> IF n = name THEN symbol ELSE syms[n]]

\* self.symbols.remove(name)
symbols_remove(syms, name) == [n \in DOMAIN syms \ {name} |-> syms[n]]

\* a comparison that looks at the kind only
incompatible_kind_only(old_type, fun_type) == old_type.kind # fun_type.kind

\* old_symbol.c_type != fun_type
incompatible(old_type, fun_type) == old_type # fun_type

\* an entry that says what the last declaration said
defined_after_last(already_defined, has_body) == has_body

\* defined: already_defined || has_body
defined_after(already_defined, has_body) == already_defined \/ has_body

\* check_declaration, Declaration::Function, up to the insertion of the entry
check_function(syms, name, param_count, has_body) ==
    LET fun_type == CFunction(param_count)
        old_symbol == symbols_get(syms, name)
        known == name \in DOMAIN syms
        already_defined == known /\ old_symbol.defined
    IN IF known /\ incompatible(old_symbol.c_type, fun_type)
       THEN [err |-> "IncompatibleRedeclaration", symbols |-> syms]
       ELSE IF already_defined /\ has_body
       THEN [err |-> "DuplicateFunctionDefinition", symbols |-> syms]
       ELSE [err |-> "none",
             symbols |-> symbols_insert(syms, name,
                           Symbol(fun_type, defined_after(already_defined, has_body)))]

\* the loop that adds the parameters of a function with a body
RECURSIVE insert_params(_, _, _)
insert_params(syms, params, i) ==
    IF i > Len(params) THEN syms
    ELSE insert_params(symbols_insert(syms, params[i], Symbol(CInt, TRUE)), params, i + 1)

\* the loop that removes them after the body
RECURSIVE remove_params(_, _, _)
remove_params(syms, params, i) ==
    IF i > Len(params) THEN syms
    ELSE remove_params(symbols_remove(syms, params[i]), params, i + 1)

\* a test that takes every symbol for a variable
is_function_never(c_type) == FALSE

\* matches!(symbol.c_type, CType::Function { .. })
is_function(c_type) == c_type.kind = "Function"

\* check_expression, Expression::Var
check_var(syms, name) ==
    IF name \notin DOMAIN syms THEN "InternalError"
    ELSE IF is_function(syms[name].c_type) THEN "KindConfusion"
    ELSE "none"

\* a comparison that lets a call pass fewer arguments
arity_differs_above(nargs, param_count) == nargs > param_count

\* args.len() != param_count
arity_differs(nargs, param_count) == nargs # param_count

\* check_expression, Expression::FunctionCall, up to its arguments
check_call(syms, name, nargs) ==
    IF name \notin DOMAIN syms THEN "InternalError"
    ELSE IF syms[name].c_type = CInt THEN "KindConfusion"
    ELSE IF arity_differs(nargs, syms[name].c_type.param_count) THEN "CallArityMismatch"
    ELSE "none"

\* an expression has been checked: the call it is an argument of has one
\* argument less to come, and is itself checked when none is left
RECURSIVE complete(_)
complete(p) ==
    IF p = <<>> THEN p
    ELSE IF p[Len(p)] = 1 THEN complete(SubSeq(p, 1, Len(p) - 1))
    ELSE [p EXCEPT ![Len(p)] = @ - 1]

Checking == vresult = "running" /\ cresult = "running"

CheckFail(e) ==
    /\ cresult' = "Err"
    /\ cerror' = e

\* between two block items or two top-level declarations
BetweenItems == pending = <<>>

Range(seq) == {seq[i] : i \in 1..Len(seq)}

\* ghost: name has been declared in the innermost open scope as a variable or
\* as a function
Declared(ks, name, kind) ==
    [ks EXCEPT ![Len(ks)] =
        [n \in DOMAIN ks[Len(ks)] \cup {name} |->
            IF n = name THEN kind ELSE ks[Len(ks)][n]]]

\* ghost: what the innermost visible declaration of name declares
RECURSIVE KindOf(_, _, _)
KindOf(ks, i, name) ==
    IF i = 0 THEN "none"
    ELSE IF name \in DOMAIN ks[i] THEN ks[i][name]
    ELSE KindOf(ks, i - 1, name)

InitSemantics ==
    /\ counter = 0
    /\ label_counter = 0
    /\ ResolverNew
    /\ LabelerNew
    /\ LowerIdle
    /\ AsmNew
    /\ AllocNew
    /\ PipeNew
    /\ CheckerNew
    /\ ControlNew
    /\ ProgramNew

\* ghost: a declaration the resolver refused, so that the checker never saw it
Refused(name, n, kind) ==
    [op |-> "refused", name |-> name, n |-> n, has_body |-> FALSE,
     old |-> symbols_get(symbols, name), linked |-> FALSE, kind |-> kind,
     err |-> "resolver"]

\* validate_program and check_program, up to their loops
SemProgramBegin ==
    /\ vresult = "new"
    /\ scopes' = enter_scope(scopes)
    /\ vresult' = "running"
    /\ cresult' = "running"
    /\ ctx' = <<[kind |-> "global", id |-> 1, st |-> "top"]>>
    /\ declared' = <<[n \in {} |-> "none"]>>
    /\ UNCHANGED <<counter, verror, nframes>>
    /\ UNCHANGED <<symbols, cerror, cparams, pending, nchecked, lastCheck>>
    /\ UNCHANGED notSemantics

\* validate_program and check_program, after their loops
SemProgramEnd ==
    /\ Checking
    /\ BetweenItems
    /\ Top.kind = "global"
    /\ vresult' = "Ok"
    /\ cresult' = "Ok"
    /\ UNCHANGED <<counter, scopes, verror, ctx, nframes>>
    /\ UNCHANGED <<symbols, cerror, cparams, pending, nchecked, lastCheck, declared>>
    /\ UNCHANGED notSemantics

\* Declaration::Variable: validate_declaration, then check_declaration on the
\* name the resolver gave, both up to the initializer
SemVariable(name) ==
    /\ Checking
    /\ BetweenItems
    /\ MayDeclareVariable
    /\ nchecked < MaxChecked
    /\ nchecked' = nchecked + 1
    /\ LET is_global == Top.kind = "global"
           u == IF is_global THEN [name |-> name, counter |-> counter]
                ELSE generate_unique_name(name, counter)
       IN IF contains_key_last(scopes, name)
          THEN /\ Fail("DuplicateDeclaration")
               /\ lastCheck' = Refused(name, 0, "variable")
               /\ UNCHANGED <<counter, scopes, ctx, symbols, declared>>
          ELSE /\ counter' = u.counter
               /\ declared' = Declared(declared, name, "variable")
               /\ scopes' = insert_last(scopes, name, IdentifierInfo(u.name, is_global))
               /\ ctx' = IF is_global THEN Touch(ctx, "init") ELSE Touched(ctx)
               /\ symbols' = symbols_insert(symbols, u.name, Symbol(CInt, TRUE))
               /\ lastCheck' = [op |-> "variable", name |-> u.name, n |-> 0,
                                has_body |-> FALSE, old |-> symbols_get(symbols, u.name),
                                linked |-> is_global, kind |-> "variable",
                                err |-> "none", src |-> name]
               /\ UNCHANGED <<vresult, verror>>
    /\ UNCHANGED <<nframes, cresult, cerror, cparams, pending>>
    /\ UNCHANGED notSemantics

\* Declaration::Function: validate_declaration up to the body, then
\* check_declaration up to the body
SemFunction(name, params, has_body) ==
    /\ Checking
    /\ BetweenItems
    /\ nchecked < MaxChecked
    /\ nchecked' = nchecked + 1
    /\ UNCHANGED <<pending, nframes>>
    /\ UNCHANGED notSemantics
    /\ IF function_conflicts(scopes, name)
       THEN /\ Fail("DuplicateDeclaration")
            /\ lastCheck' = Refused(name, Len(params), "function")
            /\ UNCHANGED <<counter, scopes, ctx>>
            /\ UNCHANGED <<symbols, cresult, cerror, cparams, declared>>
       ELSE LET r == validate_params(params, 1,
                        enter_scope(insert_last(scopes, name, IdentifierInfo(name, TRUE))),
                        counter, <<>>)
                c == check_function(symbols, name, Len(params), has_body)
            IN /\ counter' = r.counter
               /\ IF r.err # "none"
                  THEN /\ Fail(r.err)
                       /\ scopes' = r.scopes
                       /\ lastCheck' = Refused(params[Len(r.names) + 1], 0, "parameter")
                       /\ UNCHANGED <<ctx, symbols, cresult, cerror, cparams, declared>>
                  ELSE /\ UNCHANGED <<vresult, verror>>
                       /\ lastCheck' = [op |-> "function", name |-> name,
                                        n |-> Len(params), has_body |-> has_body,
                                        old |-> symbols_get(symbols, name),
                                        linked |-> TRUE, kind |-> "function",
                                        err |-> c.err]
                       /\ IF c.err # "none"
                          THEN /\ CheckFail(c.err)
                               /\ scopes' = r.scopes
                               /\ UNCHANGED <<ctx, symbols, cparams, declared>>
                          ELSE /\ UNCHANGED <<cresult, cerror>>
                               /\ IF has_body
                                  THEN /\ scopes' = r.scopes
                                       /\ symbols' = insert_params(c.symbols, r.names, 1)
                                       /\ cparams' = r.names
                                       /\ declared' = Append(Declared(declared, name, "function"),
                                                          [n \in Range(params) |-> "variable"])
                                       /\ ctx' = Append(Touch(ctx, "top"),
                                                   [kind |-> "func", id |-> Len(ctx) + 1,
                                                    st |-> "item", fn |-> name,
                                                    arity |-> Len(params)])
                                  ELSE /\ scopes' = exit_scope(r.scopes)
                                       /\ symbols' = c.symbols
                                       /\ declared' = Declared(declared, name, "function")
                                       /\ UNCHANGED cparams
                                       /\ ctx' = IF Top.kind = "global"
                                                 THEN Touch(ctx, "top") ELSE ctx

\* a function declaration without a body, at top level or as a block item
SemFunctionDeclaration ==
    /\ Checking
    /\ MayDeclareFunction
    /\ \E n \in Names, ps \in ParamLists : SemFunction(n, ps, FALSE)

\* a function definition at top level, up to its body
SemFunctionDefinition ==
    /\ Checking
    /\ Top.kind = "global"
    /\ \E n \in Names, ps \in ParamLists : SemFunction(n, ps, TRUE)

\* a function definition that is a block item: the resolver's error
SemNestedFunctionDefinition ==
    /\ Checking
    /\ BetweenItems
    /\ Top.kind \in {"func", "block"}
    /\ Fail("NestedFunction")
    /\ UNCHANGED <<counter, scopes, ctx, nframes>>
    /\ UNCHANGED chkVars
    /\ UNCHANGED notSemantics

\* a function definition after its body: exit_scope, and the parameters removed
SemFunctionBodyEnd ==
    /\ Checking
    /\ BetweenItems
    /\ Top.kind = "func"
    /\ scopes' = exit_scope(scopes)
    /\ ctx' = SubSeq(ctx, 1, Len(ctx) - 1)
    /\ symbols' = remove_params(symbols, cparams, 1)
    /\ cparams' = <<>>
    /\ declared' = SubSeq(declared, 1, Len(declared) - 1)
    /\ UNCHANGED <<counter, vresult, verror, nframes>>
    /\ UNCHANGED <<cresult, cerror, pending, nchecked, lastCheck>>
    /\ UNCHANGED notSemantics

\* validate_block and check_block, up to their loops
SemCompoundEnter ==
    /\ Checking
    /\ BetweenItems
    /\ InBody
    /\ Len(scopes) < MaxFrames
    /\ scopes' = enter_scope(scopes)
    /\ ctx' = Append(Touched(ctx), [kind |-> "block", id |-> Len(ctx) + 1, st |-> "item"])
    /\ declared' = Append(declared, [n \in {} |-> "none"])
    /\ UNCHANGED <<counter, vresult, verror, nframes>>
    /\ UNCHANGED <<symbols, cresult, cerror, cparams, pending, nchecked, lastCheck>>
    /\ UNCHANGED notSemantics

\* validate_block and check_block, after their loops
SemCompoundExit ==
    /\ Checking
    /\ BetweenItems
    /\ Top.kind = "block"
    /\ scopes' = exit_scope(scopes)
    /\ ctx' = SubSeq(ctx, 1, Len(ctx) - 1)
    /\ declared' = SubSeq(declared, 1, Len(declared) - 1)
    /\ UNCHANGED <<counter, vresult, verror, nframes>>
    /\ UNCHANGED <<symbols, cresult, cerror, cparams, pending, nchecked, lastCheck>>
    /\ UNCHANGED notSemantics

\* Expression::Constant
SemConstant ==
    /\ Checking
    /\ MayUse
    /\ pending # <<>>
    /\ pending' = complete(pending)
    /\ UNCHANGED <<counter, scopes, vresult, verror, ctx, nframes>>
    /\ UNCHANGED <<symbols, cresult, cerror, cparams, nchecked, lastCheck, declared>>
    /\ UNCHANGED notSemantics

\* Expression::Var: validate_expression, then check_expression on the name
\* the resolver gave
SemVar(name) ==
    /\ Checking
    /\ MayUse
    /\ LET info == find_identifier(scopes, name)
           e == check_var(symbols, info.unique_name)
       IN IF info = NotFound
          THEN /\ Fail("UndeclaredIdentifier")
               /\ UNCHANGED <<ctx, cresult, cerror, pending, lastCheck>>
          ELSE /\ UNCHANGED <<vresult, verror>>
               /\ ctx' = Touched(ctx)
               /\ lastCheck' = [op |-> "var", name |-> info.unique_name, n |-> 0,
                                has_body |-> FALSE,
                                old |-> symbols_get(symbols, info.unique_name),
                                linked |-> info.has_external_linkage,
                                kind |-> KindOf(declared, Len(declared), name), err |-> e]
               /\ IF e # "none"
                  THEN CheckFail(e) /\ UNCHANGED pending
                  ELSE pending' = complete(pending) /\ UNCHANGED <<cresult, cerror>>
    /\ UNCHANGED <<counter, scopes, nframes, symbols, cparams, nchecked, declared>>
    /\ UNCHANGED notSemantics

\* Expression::FunctionCall: validate_expression, then check_expression on the
\* name the resolver gave, both up to the arguments
SemCall(name, nargs) ==
    /\ Checking
    /\ MayUse
    /\ nargs = 0 \/ Len(pending) < MaxDepth
    /\ LET info == find_identifier(scopes, name)
           e == check_call(symbols, info.unique_name, nargs)
       IN IF info = NotFound \/ ~info.has_external_linkage
          THEN /\ Fail(IF info = NotFound THEN "UndeclaredIdentifier" ELSE "KindConfusion")
               /\ lastCheck' = [op |-> "call", name |-> info.unique_name, n |-> nargs,
                                has_body |-> FALSE,
                                old |-> symbols_get(symbols, info.unique_name),
                                linked |-> FALSE,
                                kind |-> KindOf(declared, Len(declared), name),
                                err |-> "resolver"]
               /\ UNCHANGED <<ctx, cresult, cerror, pending>>
          ELSE /\ UNCHANGED <<vresult, verror>>
               /\ ctx' = Touched(ctx)
               /\ lastCheck' = [op |-> "call", name |-> info.unique_name, n |-> nargs,
                                has_body |-> FALSE,
                                old |-> symbols_get(symbols, info.unique_name),
                                linked |-> TRUE,
                                kind |-> KindOf(declared, Len(declared), name), err |-> e]
               /\ IF e # "none"
                  THEN CheckFail(e) /\ UNCHANGED pending
                  ELSE /\ pending' = IF nargs = 0 THEN complete(pending)
                                     ELSE Append(pending, nargs)
                       /\ UNCHANGED <<cresult, cerror>>
    /\ UNCHANGED <<counter, scopes, nframes, symbols, cparams, nchecked, declared>>
    /\ UNCHANGED notSemantics

NextSemantics ==
    \/ SemProgramBegin
    \/ SemProgramEnd
    \/ \E n \in Names : SemVariable(n)
    \/ SemFunctionDeclaration
    \/ SemFunctionDefinition
    \/ SemNestedFunctionDefinition
    \/ SemFunctionBodyEnd
    \/ SemCompoundEnter
    \/ SemCompoundExit
    \/ SemConstant
    \/ \E n \in Names : SemVar(n)
    \/ \E n \in Names, k \in 0..MaxCallArgs : SemCall(n, k)

SpecSemantics == InitSemantics /\ [][NextSemantics]_vars

(***************************************************************************)
(* backend/tacky_gen.rs: statements.  One statement is lowered into an     *)
(* empty list and its code is run; what can be seen of a run is the stores *)
(* to the variables of the program, in order.                              *)
(***************************************************************************)
MaxStores == 7

LOOP_START_PREFIX == "loop_start"

CONTINUE_LABEL_PREFIX == "continue"

BREAK_LABEL_PREFIX == "break"

make_label_with_id(prefix, id) == "_" \o prefix \o "_" \o FormatId(id)

\* checked::Statement and checked::BlockItem; an absent part is NoVal
StmtExpression(exp) == [kind |-> "Expression", exp |-> exp]

StmtIf(condition, then_stat, else_stat) ==
    [kind |-> "If", condition |-> condition, then_stat |-> then_stat,
     else_stat |-> else_stat]

StmtCompound(blocks) == [kind |-> "Compound", blocks |-> blocks]

StmtBreak(target_id) == [kind |-> "Break", target_id |-> target_id]

StmtContinue(target_id) == [kind |-> "Continue", target_id |-> target_id]

StmtFor(init, condition, post, body, id) ==
    [kind |-> "For", init |-> init, condition |-> condition, post |-> post,
     body |-> body, id |-> id]

StmtReturn(exp) == [kind |-> "Return", exp |-> exp]

StmtEmpty == [kind |-> "Empty"]

StmtWhile(condition, body, id) ==
    [kind |-> "While", condition |-> condition, body |-> body, id |-> id]

StmtDoWhile(body, condition, id) ==
    [kind |-> "DoWhile", body |-> body, condition |-> condition, id |-> id]

ItemD(name, init) == [kind |-> "D", name |-> name, init |-> init]

ItemS(stmt) == [kind |-> "S", stmt |-> stmt]

\* a continue that goes back to the start of the loop
continue_target_start(target_id) == make_label_with_id(LOOP_START_PREFIX, target_id)

\* the Continue arm: the label the jump names
continue_target(target_id) == make_label_with_id(CONTINUE_LABEL_PREFIX, target_id)

\* no test at all: the then branch is entered whatever the condition is
if_test_absent(g, label) == g

\* the If arm, step 2: the condition's value is tested
if_test(g, label) == jump_if_zero(g, label)

RECURSIVE generate_tacky_for_statement(_, _)

\* generate_tacky_for_block_item
generate_tacky_for_block_item(item, g) ==
    IF item.kind = "D"
    THEN IF item.init # NoVal
         THEN copy_value(generate_tacky_for_expression(item.init, g), ValVar(item.name))
         ELSE g
    ELSE generate_tacky_for_statement(item.stmt, g)

\* generate_tacky_for_block: the items in order
RECURSIVE generate_tacky_for_block(_, _, _)
generate_tacky_for_block(blocks, i, g) ==
    IF i > Len(blocks) THEN g
    ELSE generate_tacky_for_block(blocks, i + 1,
                                  generate_tacky_for_block_item(blocks[i], g))

\* the If arm with an else
generate_if_else(stmt, g) ==
    LET else_label == make_label_with_prefix("else", g.label_counter)
        end_label == make_label_with_prefix("if_end", else_label.label_counter)
        g0 == [g EXCEPT !.label_counter = end_label.label_counter]
        g1 == generate_tacky_for_expression(stmt.condition, g0)
        g2 == if_test(g1, else_label.label)
        g3 == generate_tacky_for_statement(stmt.then_stat, g2)
        g4 == Push(g3, Jump(end_label.label))
        g5 == Push(g4, Label(else_label.label))
        g6 == generate_tacky_for_statement(stmt.else_stat, g5)
    IN Push(g6, Label(end_label.label))

\* the If arm without an else
generate_if(stmt, g) ==
    LET end_label == make_label_with_prefix("if_end", g.label_counter)
        g0 == [g EXCEPT !.label_counter = end_label.label_counter]
        g1 == generate_tacky_for_expression(stmt.condition, g0)
        g2 == if_test(g1, end_label.label)
        g3 == generate_tacky_for_statement(stmt.then_stat, g2)
    IN Push(g3, Label(end_label.label))

\* the For arm, step 1: the init clause, when there is one
for_init(init, g) ==
    IF init # NoVal THEN generate_tacky_for_block_item(init, g) ELSE g

\* the For arm, step 3: the condition, when there is one, leaves the loop on zero
for_condition(condition, break_label, g) ==
    IF condition # NoVal
    THEN jump_if_zero(generate_tacky_for_expression(condition, g), break_label)
    ELSE g

\* the For arm, step 6: the post clause, when there is one
for_post(post, g) ==
    IF post # NoVal THEN generate_tacky_for_expression(post, g) ELSE g

\* the For arm
generate_for(stmt, g) ==
    LET start_label == make_label_with_id(LOOP_START_PREFIX, stmt.id)
        continue_label == make_label_with_id(CONTINUE_LABEL_PREFIX, stmt.id)
        break_label == make_label_with_id(BREAK_LABEL_PREFIX, stmt.id)
        g1 == for_init(stmt.init, g)
        g2 == Push(g1, Label(start_label))
        g3 == for_condition(stmt.condition, break_label, g2)
        g4 == generate_tacky_for_statement(stmt.body, g3)
        g5 == Push(g4, Label(continue_label))
        g6 == for_post(stmt.post, g5)
        g7 == Push(g6, Jump(start_label))
    IN Push(g7, Label(break_label))

\* the Return arm: the value, then the Return that carries it
generate_return(stmt, g) ==
    return_value(generate_tacky_for_expression(stmt.exp, g))

\* the DoWhile arm
generate_do_while(stmt, g) ==
    LET start_label == make_label_with_id(LOOP_START_PREFIX, stmt.id)
        continue_label == make_label_with_id(CONTINUE_LABEL_PREFIX, stmt.id)
        break_label == make_label_with_id(BREAK_LABEL_PREFIX, stmt.id)
        g1 == Push(g, Label(start_label))
        g2 == generate_tacky_for_statement(stmt.body, g1)
        g3 == Push(g2, Label(continue_label))
        g4 == generate_tacky_for_expression(stmt.condition, g3)
        g5 == jump_if_not_zero(g4, start_label)
    IN Push(g5, Label(break_label))

\* the While arm
generate_while(stmt, g) ==
    LET continue_label == make_label_with_id(CONTINUE_LABEL_PREFIX, stmt.id)
        break_label == make_label_with_id(BREAK_LABEL_PREFIX, stmt.id)
        g1 == Push(g, Label(continue_label))
        g2 == generate_tacky_for_expression(stmt.condition, g1)
        g3 == jump_if_zero(g2, break_label)
        g4 == generate_tacky_for_statement(stmt.body, g3)
        g5 == Push(g4, Jump(continue_label))
    IN Push(g5, Label(break_label))

generate_tacky_for_statement(stmt, g) ==
    CASE stmt.kind = "Expression" -> generate_tacky_for_expression(stmt.exp, g)
      [] stmt.kind = "Return" -> generate_return(stmt, g)
      [] stmt.kind = "Empty" -> g
      [] stmt.kind = "DoWhile" -> generate_do_while(stmt, g)
      [] stmt.kind = "While" -> generate_while(stmt, g)
      [] stmt.kind = "If" /\ stmt.else_stat # NoVal -> generate_if_else(stmt, g)
      [] stmt.kind = "If" /\ stmt.else_stat = NoVal -> generate_if(stmt, g)
      [] stmt.kind = "Compound" -> generate_tacky_for_block(stmt.blocks, 1, g)
      [] stmt.kind = "Break" ->
            Push(g, Jump(make_label_with_id(BREAK_LABEL_PREFIX, stmt.target_id)))
      [] stmt.kind = "Continue" -> Push(g, Jump(continue_target(stmt.target_id)))
      [] stmt.kind = "For" -> generate_for(stmt, g)

\* the variables the statements read, and those they only write
Inputs == {"i", "s", "x", "y"}

Set(name, exp) == StmtExpression(ExpAssign(ExpVar(name), exp))

One == ExpConstant(1)

LoopIds == {0, MaxStartId}

\* the bodies of a loop: a statement; a block with a continue under a
\* condition between two statements; a continue alone
Bodies(id) ==
    {Set("a", One),
     StmtCompound(<<ItemS(Set("a", One)),
                    ItemS(StmtIf(ExpVar("s"), StmtContinue(id), NoVal)),
                    ItemS(Set("b", One))>>),
     StmtContinue(id)}

Inits == {NoVal, ItemS(Set("k", One)), ItemD("k", One), ItemD("k", NoVal)}

Conditions == {NoVal, ExpAssign(ExpVar("c"), ExpVar("i"))}

Posts == {NoVal, ExpAssign(ExpVar("i"), ExpBinary("Subtract", ExpVar("i"), One))}

ForStatements ==
    {StmtFor(init, condition, post, body, id) :
        init \in Inits, condition \in Conditions, post \in Posts,
        body \in UNION {Bodies(n) : n \in LoopIds}, id \in LoopIds}

\* the loops whose continue names the loop itself, as the labeler leaves them
LabeledFor == {f \in ForStatements : f.body \in Bodies(f.id)}

Thens == {ExpAssign(ExpVar("a"), ExpVar("x")), ExpVar("x")}

Elses == {ExpAssign(ExpVar("b"), ExpVar("y")), ExpVar("y")}

IfStatements ==
    {StmtIf(ExpVar("s"), StmtExpression(l), StmtExpression(r)) :
        l \in Thens, r \in Elses}
    \cup {StmtIf(ExpVar("s"), StmtExpression(l), NoVal) : l \in Thens}

ConditionalStatements ==
    {Set("r", ExpConditional(ExpVar("s"), l, r)) : l \in Thens, r \in Elses}

Statements == LabeledFor \cup IfStatements \cup ConditionalStatements

InitControl ==
    /\ counter \in {0, MaxStartId}
    /\ label_counter \in {0, MaxStartLabel}
    /\ ResolverNew
    /\ LabelerNew
    /\ LowerIdle
    /\ AsmNew
    /\ AllocNew
    /\ PipeNew
    /\ CheckerNew
    /\ ControlNew
    /\ ProgramNew

\* generate_tacky_for_statement on one statement, into an empty list; the code
\* is then run from its first instruction, the variables read holding any values
GenerateStatement ==
    /\ tstate = "new"
    /\ \E stmt \in Statements : \E vals \in [Inputs -> Values] :
          LET g == generate_tacky_for_statement(stmt, Gen(<<>>, counter, label_counter))
          IN /\ instructions' = g.instructions
             /\ counter' = g.counter
             /\ label_counter' = g.label_counter
             /\ texp' = stmt
             /\ env' = vals
    /\ tstate' = "emitted"
    /\ pc' = 1
    /\ UNCHANGED <<tval, executed, shape, lval, stores>>
    /\ UNCHANGED notControl

IsTemporary(name) == \E n \in 0..(counter - 1) : name = "tmp." \o FormatId(n)

\* Copy into a variable of the program: the store is seen
StoreCopy ==
    /\ At("Copy")
    /\ ~IsTemporary(instructions[pc].dst.name)
    /\ Len(stores) < MaxStores
    /\ LET i == instructions[pc]
       IN /\ env' = Store(env, i.dst, ValueOf(i.src, env))
          /\ stores' = Append(stores, [name |-> i.dst.name, value |-> ValueOf(i.src, env)])
    /\ pc' = pc + 1
    /\ executed' = executed \cup {pc}
    /\ UNCHANGED <<counter, label_counter, texp, instructions, tval, tstate, shape, lval>>
    /\ UNCHANGED notControl

\* Copy into a temporary
TemporaryCopy ==
    /\ At("Copy")
    /\ IsTemporary(instructions[pc].dst.name)
    /\ ExecCopy

NextControl ==
    \/ GenerateStatement
    \/ StoreCopy
    \/ TemporaryCopy
    \/ ExecBinary
    \/ ExecJump
    \/ ExecJumpIfZero
    \/ ExecLabel
    \/ ExecEnd

SpecControl == InitControl /\ [][NextControl]_vars

(***************************************************************************)
(* backend/tacky_gen.rs, generate_tacky_for_function and generate_tacky:   *)
(* the functions of a checked program are lowered one after the other by   *)
(* one generator, and the code of a lowered function is then run.          *)
(***************************************************************************)
\* functions of one program
MaxFunctions == 2

CheckedFunction(name, body) == [name |-> name, body |-> body]

TackyFunction(name, body) == [name |-> name, body |-> body]

\* a test that finds a Return at the end of every list
last_is_return_always(ins) == TRUE

\* matches!(instructions.last(), Some(tacky::Instruction::Return(_)))
last_is_return(ins) == ins # <<>> /\ ins[Len(ins)].op = "Return"

\* generate_tacky_for_function, step 2: the implicit return
implicit_return(g) ==
    IF ~last_is_return(g.instructions) THEN Push(g, Return(ValConstant(0))) ELSE g

\* generate_tacky_for_function: the body into an empty list, then the implicit return
generate_tacky_for_function(func, c, lc) ==
    implicit_return(generate_tacky_for_block(func.body, 1, Gen(<<>>, c, lc)))

X == ExpVar("x")

Y == ExpVar("y")

S == ExpVar("s")

I == ExpVar("i")

\* a call without arguments of a function of its own, to tell operands apart
Probe(n) == ExpFunctionCall("p" \o FormatId(n), <<>>)

\* the bodies of a function whose loops the labeler has given the ids a and b:
\* empty; an if around a return; a while with a continue in a for with a break;
\* a do-while and the short-circuit operators; a call with two arguments, a
\* conditional, an if with an else and a return; a block and a statement after
\* a return; calls as the operands of operators; calls as the arguments of a
\* call; calls in the statements and the declaration of a block
FunctionBodies(a, b) ==
    {<<>>,
     <<ItemS(StmtIf(S, StmtReturn(ExpBinary("Add", ExpBinary("Subtract", X, One),
                                            ExpUnary("Negate", Y))), NoVal))>>,
     <<ItemS(StmtFor(NoVal, I, ExpAssign(I, ExpBinary("Subtract", I, One)),
                     StmtCompound(
                        <<ItemS(StmtWhile(S, StmtCompound(
                                   <<ItemS(Set("s", ExpBinary("Subtract", S, One))),
                                     ItemS(StmtIf(S, StmtContinue(b), NoVal)),
                                     ItemS(Set("a", ExpConstant(0)))>>), b)),
                          ItemS(StmtIf(ExpVar("a"), StmtBreak(a), NoVal))>>), a))>>,
     <<ItemS(StmtDoWhile(StmtCompound(<<ItemS(Set("s", I)),
                                        ItemS(Set("i", ExpConstant(0)))>>), S, a)),
       ItemS(Set("a", ExpBinary("And", S, X))), ItemS(Set("b", ExpBinary("Or", S, Y)))>>,
     <<ItemD("a", ExpFunctionCall("f", <<X, ExpBinary("Add", Y, One)>>)),
       ItemS(Set("a", ExpConditional(S, X, Y))),
       ItemS(StmtIf(S, Set("a", X), Set("b", Y))),
       ItemS(StmtReturn(ExpVar("a")))>>,
     <<ItemS(StmtCompound(<<ItemS(Set("a", X)), ItemS(Set("b", Y))>>)),
       ItemS(StmtEmpty), ItemS(StmtReturn(ExpVar("b"))), ItemS(Set("a", One))>>,
     <<ItemS(Set("a", ExpBinary("Add", ExpBinary("Subtract", Probe(1), Probe(2)),
                                Probe(3))))>>,
     <<ItemS(StmtExpression(ExpFunctionCall("p4",
                <<Probe(1), ExpBinary("Add", Probe(2), One), Probe(3)>>)))>>,
     <<ItemS(StmtExpression(Probe(1))), ItemD("a", Probe(2)),
       ItemS(StmtCompound(<<ItemS(StmtExpression(Probe(3)))>>)),
       ItemS(StmtReturn(Probe(4)))>>}

FunctionNames == <<"f", "g", "h", "k">>

\* the programs of n functions whose loop ids begin at start: the labeler has
\* given every loop an id of its own
RECURSIVE Programs(_, _)
Programs(n, start) ==
    IF n = 0 THEN {<<>>}
    ELSE {Append(p, CheckedFunction(FunctionNames[n], body)) :
             p \in Programs(n - 1, start),
             body \in FunctionBodies(start + 2 * (n - 1), start + 2 * (n - 1) + 1)}

\* zero and not zero
Flags == {0, 1}

\* the variables the code reads before it writes them
ProgramInputs == {"s", "i"}

\* the other variables of the code
ProgramLocals == {"x", "y", "a", "b"}

\* TackyGenerator::new on the generator the passes before have drawn the loop
\* ids from; the program is the one the labeler has returned
InitProgram ==
    /\ \E start \in {0, MaxStartId} : \E n \in 1..MaxFunctions :
          /\ texp \in Programs(n, start)
          /\ counter = start + 2 * n
    /\ label_counter = 0
    /\ instructions = <<>>
    /\ tval = NoVal
    /\ tstate = "new"
    /\ pc = 0
    /\ env = <<>>
    /\ executed = {}
    /\ shape = NoShape
    /\ lval = <<>>
    /\ ResolverNew
    /\ LabelerNew
    /\ AsmNew
    /\ AllocNew
    /\ PipeNew
    /\ CheckerNew
    /\ ControlNew
    /\ ProgramNew

\* generate_tacky_for_function on the next function of the program
GenerateFunction ==
    /\ tstate = "new"
    /\ Len(tacky_functions) < Len(texp)
    /\ LET func == texp[Len(tacky_functions) + 1]
           g == generate_tacky_for_function(func, counter, label_counter)
       IN /\ tacky_functions' = Append(tacky_functions, TackyFunction(func.name, g.instructions))
          /\ counter' = g.counter
          /\ label_counter' = g.label_counter
    /\ UNCHANGED <<texp, instructions, tval, tstate, pc, env, executed, shape, lval, stores>>
    /\ UNCHANGED notProgram

\* a lowered function is called: its code is run from its first instruction,
\* the variables it reads holding any values
RunFunction ==
    /\ tstate = "new"
    /\ tacky_functions # <<>>
    /\ Len(tacky_functions) = Len(texp)
    /\ \E k \in 1..Len(tacky_functions) : \E vals \in [ProgramInputs -> Flags] :
          /\ instructions' = tacky_functions[k].body
          /\ env' = vals @@ [n \in ProgramLocals |-> 1]
    /\ tstate' = "emitted"
    /\ pc' = 1
    /\ UNCHANGED <<counter, label_counter, texp, tval, executed, shape, lval, stores>>
    /\ UNCHANGED <<notProgram, progVars>>

\* Return: the function returns the value
ExecReturn ==
    /\ At("Return")
    /\ tval' = ValConstant(ValueOf(instructions[pc].val, env))
    /\ tstate' = "returned"
    /\ executed' = executed \cup {pc}
    /\ UNCHANGED <<counter, label_counter, texp, instructions, pc, env, shape, lval, stores>>
    /\ UNCHANGED <<notProgram, progVars>>

NextProgram ==
    \/ GenerateFunction
    \/ RunFunction
    \/ ExecUnary
    \/ ExecBinary
    \/ ExecCopy
    \/ ExecJump
    \/ ExecJumpIfZero
    \/ ExecJumpIfNotZero
    \/ ExecLabel
    \/ \E returned \in Flags : ExecFunCall(returned)
    \/ ExecReturn

SpecProgram == InitProgram /\ [][NextProgram]_vars

(***************************************************************************)
(* main.rs, run_pipeline: one UniqueIdGenerator is given to the resolver,  *)
(* then to the labeler, then to the IR generator; each pass runs when the  *)
(* pass before it has returned Ok.                                         *)
(***************************************************************************)
\* the names the program gives its variables and parameters
CompileNames == {"tmp", "x"}

CompileParams == {<<>>, <<"tmp">>, <<"x", "tmp">>}

\* UniqueIdGenerator::new, Validator::new, LoopLabeler::new, TackyGenerator::new
InitCompile ==
    /\ counter = 0
    /\ ResolverNew
    /\ LabelerNew
    /\ LowerNew
    /\ AsmNew
    /\ AllocNew
    /\ PipeNew
    /\ CheckerNew
    /\ ControlNew
    /\ ProgramNew

\* validator.validate_program(c_ast)? has returned
Resolved == vresult = "Ok"

\* labeler.label_program(name_resolved_ast)? has returned
Labeled == Resolved /\ lresult = "Ok"

\* validate_declaration on a function definition of the program
ResolveFunctionDefinition == \E ps \in CompileParams : FunctionDefinition("f", ps)

\* validate_declaration on a variable of the program
ResolveVariableDeclaration == \E n \in CompileNames : VariableDeclaration(n)

\* label_declaration on a function definition of the resolved program
LabelResolvedFunctionBegin == Resolved /\ LabelFunctionBegin

LabelResolvedFunctionEnd == Resolved /\ LabelFunctionEnd

\* label_statement on a loop of the resolved program
LabelResolvedLoopEnter == Resolved /\ LabelLoopEnter("while")

LabelResolvedLoopExit == Resolved /\ LabelLoopExit

\* label_program on the resolved program returns
LabelResolvedProgramEnd == Resolved /\ LabelProgramEnd

\* the variables of the resolved program that were given a name of their own
RenamedNames == {d.uniq : d \in {e \in decls : ~e.linked}}

\* what a function of the labeled program can return: a sum of a variable, or
\* a constant, and the negation of another
ResolvedOperands == {ExpVar(n) : n \in RenamedNames} \cup {One}

\* generate_tacky on the labeled program: a function that returns a sum
LowerLabeledFunction ==
    /\ Labeled
    /\ tstate = "new"
    /\ tacky_functions = <<>>
    /\ \E l \in ResolvedOperands, r \in ResolvedOperands :
          LET func == CheckedFunction("f",
                         <<ItemS(StmtReturn(ExpBinary("Add", l, ExpUnary("Negate", r))))>>)
              g == generate_tacky_for_function(func, counter, label_counter)
          IN /\ tacky_functions' = <<TackyFunction(func.name, g.instructions)>>
             /\ counter' = g.counter
             /\ label_counter' = g.label_counter
             /\ texp' = <<func>>
    /\ UNCHANGED <<instructions, tval, tstate, pc, env, executed, shape, lval, stores>>
    /\ UNCHANGED notProgram

NextCompile ==
    \/ ValidateProgramBegin
    \/ ResolveFunctionDefinition
    \/ ResolveVariableDeclaration
    \/ FunctionBodyEnd
    \/ ValidateProgramEnd
    \/ LabelResolvedFunctionBegin
    \/ LabelResolvedLoopEnter
    \/ LabelResolvedLoopExit
    \/ LabelResolvedFunctionEnd
    \/ LabelResolvedProgramEnd
    \/ LowerLabeledFunction

SpecCompile == InitCompile /\ [][NextCompile]_vars

(***************************************************************************)
(* Lexical scoping, stated on the input tree: the declarations of a name   *)
(* that a node can see are those made before it in a construct that is     *)
(* still open at the node; the one it binds to is the innermost of them.   *)
(***************************************************************************)
Visible(name, path, at) ==
    {d \in decls : d.name = name /\ d.ord <= at /\ IsPrefix(d.path, path)}

Innermost(name, path, at) ==
    {d \in Visible(name, path, at) :
        \A e \in Visible(name, path, at) : Len(e.path) <= Len(d.path)}

\* the unlinked declarations of a name made before a node in a construct nested in
\* a scope the node sees a declaration of the name in, and closed before the node
ClosedInner(name, path, at) ==
    {d \in decls : /\ d.name = name /\ d.ord <= at /\ ~d.linked
                   /\ ~IsPrefix(d.path, path)
                   /\ \E o \in Visible(name, path, at) : IsPrefix(o.path, d.path)}

LastKind(path) == path[Len(path)].kind

\* C1: a variable use inside a nested construct that declares the name again
\* resolves to the inner declaration's unique name, which differs from the outer
\* one; a use after the inner construct has closed resolves to the outer
\* declaration's name again.
C1_Shadowing ==
    (lastUse.op = "var" /\ lastUse.res # NoName) =>
        LET vis == Visible(lastUse.name, lastUse.path, lastUse.at)
            inn == Innermost(lastUse.name, lastUse.path, lastUse.at)
            closed == ClosedInner(lastUse.name, lastUse.path, lastUse.at)
        IN /\ (\E d \in inn : ~d.linked /\ vis # inn) =>
                  /\ \A d \in inn : lastUse.res = d.uniq
                  /\ \A o \in vis \ inn : lastUse.res # o.uniq
           /\ closed # {} =>
                  /\ \A d \in inn : lastUse.res = d.uniq
                  /\ \A c \in closed : lastUse.res # c.uniq

\* a use after an inner block that shadowed the name has closed
C1_Witness ==
    /\ lastUse.op = "var"
    /\ lastUse.res # NoName
    /\ \E c \in ClosedInner(lastUse.name, lastUse.path, lastUse.at) :
          /\ LastKind(c.path) = "block"
          /\ \E o \in Innermost(lastUse.name, lastUse.path, lastUse.at) :
                ~o.linked /\ o.ord < c.ord /\ lastUse.res = o.uniq

\* the declarations of a name in for headers that are closed at a node
ClosedFor(name, path, at) ==
    {d \in decls : /\ d.name = name /\ d.ord <= at
                   /\ LastKind(d.path) = "for"
                   /\ ~IsPrefix(d.path, path)}

\* C2: the variable a for loop's init declares is the binding its condition,
\* post-expression and body see; after the loop a use of the name resolves to the
\* enclosing binding, or fails when there is none; and a declaration of the name
\* in the enclosing scope, before or after the loop, is no duplicate.
C2_ForHeaderScope ==
    /\ lastUse.op = "var" =>
        LET vis == Visible(lastUse.name, lastUse.path, lastUse.at)
            inn == Innermost(lastUse.name, lastUse.path, lastUse.at)
            gone == ClosedFor(lastUse.name, lastUse.path, lastUse.at)
        IN /\ \A d \in inn : LastKind(d.path) = "for" => lastUse.res = d.uniq
           /\ gone # {} =>
                 /\ \A g \in gone : lastUse.res # g.uniq
                 /\ \A d \in inn : lastUse.res = d.uniq
                 /\ vis = {} => /\ lastUse.res = NoName
                                /\ vresult = "Err"
                                /\ verror = "UndeclaredIdentifier"
    /\ lastDecl.op = "var" =>
        LET same == {d \in decls : /\ d.name = lastDecl.name /\ d.ord <= lastDecl.at
                                   /\ d.path = lastDecl.path}
        IN (same = {} /\ (LastKind(lastDecl.path) = "for"
                            \/ ClosedFor(lastDecl.name, lastDecl.path, lastDecl.at) # {}))
              => lastDecl.err = "none"

\* a use after a for loop whose init declared the name, resolved to the binding
\* of the enclosing scope
C2_Witness ==
    /\ lastUse.op = "var"
    /\ ClosedFor(lastUse.name, lastUse.path, lastUse.at) # {}
    /\ \E o \in Innermost(lastUse.name, lastUse.path, lastUse.at) :
          ~o.linked /\ lastUse.res = o.uniq

\* C3: a declaration fails as a duplicate when the innermost frame already holds
\* an unlinked entry for its name, and an entry in an outer frame never makes a
\* declaration fail.
C3_DuplicateInnermostOnly ==
    lastDecl.op # "none" =>
        LET same == {d \in decls : /\ d.name = lastDecl.name /\ d.ord <= lastDecl.at
                                   /\ d.path = lastDecl.path}
        IN /\ (\E d \in same : ~d.linked) => lastDecl.err = "DuplicateDeclaration"
           /\ lastDecl.err # "none" => same # {}

\* a local variable declared twice in one block
C3_Witness ==
    /\ lastDecl.op = "var"
    /\ lastDecl.err = "DuplicateDeclaration"
    /\ verror = "DuplicateDeclaration"
    /\ \E d \in decls : /\ d.name = lastDecl.name /\ d.path = lastDecl.path
                        /\ ~d.linked
    /\ \E o \in decls : o.name = lastDecl.name /\ Len(o.path) < Len(lastDecl.path)

\* C4: a variable use or call target binds to the first frame, innermost first,
\* that holds the name; when none does the resolver returns UndeclaredIdentifier
\* and no tree.
C4_LookupInnermostFirst ==
    /\ lastUse.op # "none" =>
        LET vis == Visible(lastUse.name, lastUse.path, lastUse.at)
            inn == Innermost(lastUse.name, lastUse.path, lastUse.at)
        IN IF vis = {}
           THEN /\ lastUse.res = NoName
                /\ verror = "UndeclaredIdentifier"
                /\ vresult = "Err"
           ELSE /\ verror # "UndeclaredIdentifier"
                /\ lastUse.op = "var" => \A d \in inn : lastUse.res = d.uniq
                /\ lastUse.op = "call" =>
                      \A d \in inn : IF d.linked THEN lastUse.res = d.uniq
                                     ELSE verror = "KindConfusion"
    /\ verror # "none" <=> vresult = "Err"

\* a call of a function declared nowhere
C4_Witness ==
    /\ lastUse.op = "call"
    /\ Visible(lastUse.name, lastUse.path, lastUse.at) = {}
    /\ verror = "UndeclaredIdentifier"
    /\ vresult = "Err"

\* C5: while resolving succeeds, every local variable and parameter is named
\* original.N with N an id the generator has issued, no two of them share a name,
\* every use carries the name of the declaration it binds to, and every top-level
\* function or variable, and every call, keeps its original name.
C5_UniqueNames ==
    verror = "none" =>
        /\ \A d \in decls :
              IF d.linked THEN d.uniq = d.name
              ELSE \E N \in 0..(counter - 1) : d.uniq = d.name \o "." \o FormatId(N)
        /\ \A d, e \in decls :
              (~d.linked /\ ~e.linked /\ d.ord # e.ord) => d.uniq # e.uniq
        /\ \A d \in decls : LastKind(d.path) = "global" => d.linked
        /\ lastUse.op # "none" =>
              /\ \E d \in Innermost(lastUse.name, lastUse.path, lastUse.at) :
                    lastUse.res = d.uniq
              /\ lastUse.op = "call" => lastUse.res = lastUse.name

\* a resolved program with a parameter, a local variable and a call
C5_Witness ==
    /\ vresult = "Ok"
    /\ \E d, e \in decls : /\ ~d.linked /\ ~e.linked /\ d.ord # e.ord
                           /\ LastKind(d.path) = "func" /\ d.name = e.name
    /\ lastUse.op = "call"
    /\ lastUse.res = lastUse.name

(***************************************************************************)
(* Loops, stated on the input tree: lastJump.path is the chain of nodes    *)
(* that enclose the jump, whatever the labeler's stack held.               *)
(***************************************************************************)
LoopsOf(path) == {i \in 1..Len(path) : path[i].kind = "loop"}

InLoop(path) == LoopsOf(path) # {}

InnermostLoop(path) ==
    path[CHOOSE i \in LoopsOf(path) : \A j \in LoopsOf(path) : j <= i].node

Jumped == lastJump.op # "none"

\* C6: no two loop statements carry the same id, and a break or continue that
\* is inside a loop carries the id of the innermost loop around it, which is
\* the id of no other loop, open or closed.
C6_LoopTargeting ==
    /\ \A a \in loops : \A b \in loops : a.node # b.node => a.id # b.id
    /\ (Jumped /\ InLoop(lastJump.path)) =>
          \E l \in loops :
              /\ l.node = InnermostLoop(lastJump.path)
              /\ lastJump.target = l.id
              /\ \A o \in loops : o.node # l.node => o.id # lastJump.target

\* C6: a break two loops deep, written after a sibling loop has been closed
C6_Witness ==
    /\ lastJump.op = "break"
    /\ Cardinality(LoopsOf(lastJump.path)) = 2
    /\ \E o \in loops :
          /\ o.node < InnermostLoop(lastJump.path)
          /\ \A i \in 1..Len(lastJump.path) : lastJump.path[i].node # o.node
    /\ lresult = "running"

\* C7: labeling ends in the error exactly when a break or continue stands
\* outside every loop, the error names that statement, and nothing else makes
\* the labeler fail.
C7_FailsIffOutsideLoop ==
    /\ lresult = "Err" <=> (Jumped /\ ~InLoop(lastJump.path))
    /\ lresult = "Err" => lerror = NotInLoop(lastJump.op) /\ lastJump.target = NoId
    /\ lresult # "Err" => lerror = "none"

\* C7: a continue after a loop has been closed, outside every loop
C7_Witness ==
    /\ lresult = "Err"
    /\ lastJump.op = "continue"
    /\ loops # {}
    /\ lerror = "'continue' statement not in a loop"

(***************************************************************************)
(* Short circuit, stated on the run of the emitted code.                   *)
(***************************************************************************)
RightRange == shape.rlo..shape.rhi

CallsOf(range) == {i \in range : instructions[i].op = "FunCall"}

\* C8: in the code emitted for l && r, once l's value is 0 control is past all
\* of r's instructions, none of them (a call of r included) is ever executed,
\* and the run ends with the result temporary holding 0; in the code emitted
\* for l || r the same holds once l's value is not 0, with the result 1.
C8_ShortCircuit ==
    (tstate \in {"emitted", "done"} /\ lval # <<>>) =>
        /\ (shape.op = "And" /\ lval[1] = 0) =>
              /\ executed \cap RightRange = {}
              /\ pc > shape.rhi
              /\ tstate = "done" => ValueOf(tval, env) = 0
        /\ (shape.op = "Or" /\ lval[1] # 0) =>
              /\ executed \cap RightRange = {}
              /\ pc > shape.rhi
              /\ tstate = "done" => ValueOf(tval, env) = 1

\* C8: f() && f() has been run to its end, the first call returned 0, and the
\* second call was emitted in the right operand's code
C8_Witness ==
    /\ tstate = "done"
    /\ texp = ExpBinary("And", ExpFunctionCall("f", <<>>), ExpFunctionCall("f", <<>>))
    /\ lval = <<0>>
    /\ CallsOf(RightRange) # {}
    /\ ValueOf(tval, env) = 0

(***************************************************************************)
(* The calling convention, stated on the emitted call site and on its run. *)
(***************************************************************************)
\* the value an argument of the call stands for
ArgValue(val) ==
    IF val.kind = "Constant" THEN [kind |-> "Imm", value |-> val.value]
    ELSE [kind |-> "Pseudo", name |-> val.name]

Emitted == astate \in {"emitted", "done"}

NArgs == Len(acall.args)

NRegArgs == IF NArgs < 6 THEN NArgs ELSE 6

NStackArgs == IF NArgs > 6 THEN NArgs - 6 ELSE 0

IndicesOf(op) == {i \in 1..Len(asm) : asm[i].op = op}

\* the index of the move that loads the i-th argument register
LoadOf(i) ==
    {k \in IndicesOf("Mov") : asm[k].dst = [kind |-> "Reg", reg |-> arg_registers[i]]}

\* C9: for a call with n arguments the first min(n,6) are moved, in order, to
\* DI, SI, DX, CX, R8, R9 and to no other argument register; the call
\* instruction, the only one, finds arguments 7..n pushed with argument n
\* first and argument 7 last; once the site's code is done the destination
\* holds what the callee returned in AX.
C9_CallSelection ==
    Emitted =>
        /\ \A i \in 1..6 : Cardinality(LoadOf(i)) = IF i <= NRegArgs THEN 1 ELSE 0
        /\ \A i \in 1..NRegArgs : \A j \in 1..NRegArgs :
              i < j => \A a \in LoadOf(i) : \A b \in LoadOf(j) : a < b
        /\ Cardinality(IndicesOf("Call")) = 1
        /\ \A c \in IndicesOf("Call") :
              /\ asm[c].name = acall.name
              /\ \A k \in IndicesOf("Push") \cup UNION {LoadOf(i) : i \in 1..6} : k < c
              /\ asm[Len(asm)] = [op |-> "Mov", src |-> [kind |-> "Reg", reg |-> "AX"],
                                  dst |-> ArgValue(acall.dst)]
              /\ c < Len(asm)
        /\ Len(snaps) <= 1
        /\ \A s \in 1..Len(snaps) :
              /\ \A i \in 1..NRegArgs :
                    snaps[s].cells[arg_registers[i]] = ArgValue(acall.args[i])
              /\ Len(snaps[s].pushed) = NStackArgs
              /\ \A j \in 1..NStackArgs :
                    snaps[s].pushed[j] = ArgValue(acall.args[NArgs + 1 - j])
        /\ astate = "done" =>
              /\ Len(snaps) = 1
              /\ cells[acall.dst.name] = [kind |-> "Returned", name |-> acall.name]

\* C9: a call with nine arguments has been run, and among its three stack
\* arguments there is a constant and a variable
C9_Witness ==
    /\ astate = "done"
    /\ NArgs = 9
    /\ acall.args[7].kind = "Var"
    /\ acall.args[9].kind = "Constant"
    /\ Len(snaps) = 1
    /\ snaps[1].pushed[1] = [kind |-> "Imm", value |-> 9]

\* the bytes a call site places on the stack: 8 for each stack argument, and
\* the padding
PaddingOf == IF NStackArgs % 2 = 1 THEN 8 ELSE 0

TotalOf == 8 * NStackArgs + PaddingOf

\* C10: the call instruction finds a multiple of 16 bytes placed on the stack,
\* 8 for each stack argument and 8 of padding exactly when their number is
\* odd, the padding being allocated before any push; the deallocation after
\* the call removes exactly those bytes, and there is none when there are none.
C10_StackAlignment ==
    Emitted =>
        /\ Cardinality(IndicesOf("AllocateStack")) = IF NStackArgs % 2 = 1 THEN 1 ELSE 0
        /\ \A a \in IndicesOf("AllocateStack") :
              /\ asm[a].bytes = 8
              /\ \A k \in IndicesOf("Push") : a < k
        /\ \A s \in 1..Len(snaps) :
              /\ snaps[s].sp = TotalOf
              /\ snaps[s].sp % 16 = 0
        /\ Cardinality(IndicesOf("DeallocateStack")) = IF TotalOf = 0 THEN 0 ELSE 1
        /\ \A d \in IndicesOf("DeallocateStack") :
              /\ asm[d].bytes = TotalOf
              /\ \A c \in IndicesOf("Call") : c < d
        /\ astate = "done" => sp = 0

\* C10: a call with seven arguments has been run: one stack argument, 8 bytes
\* of padding, 16 bytes removed after the call
C10_Witness ==
    /\ astate = "done"
    /\ NArgs = 7
    /\ Len(snaps) = 1
    /\ snaps[1].sp = 16
    /\ \E d \in IndicesOf("DeallocateStack") : asm[d].bytes = 16
    /\ \E a \in IndicesOf("AllocateStack") : asm[a].bytes = 8
    /\ sp = 0

(***************************************************************************)
(* Allocation and legalization, stated on the lists the passes return.     *)
(***************************************************************************)
\* the fields of an instruction that hold operands
OperandFields(inst) ==
    CASE inst.op \in {"Mov", "Binary"} -> {"src", "dst"}
      [] inst.op \in {"Unary", "Idiv", "SetCC", "Push"} -> {"operand"}
      [] inst.op = "Cmp" -> {"src1", "src2"}
      [] OTHER -> {}

Pass2Done == fstate \in {"pass3", "done"}

\* C11: in the list pass 2 returns, and in the list pass 3 makes of it, no
\* operand of any instruction is a pseudo-register; pass 2 has put a stack
\* slot wherever pass 1 had put one, and has changed nothing else.
C11_NoPseudoAfterPass2 ==
    /\ Pass2Done =>
          \A i \in 1..Len(finstr) : \A f \in OperandFields(finstr[i]) :
              finstr[i][f].kind # "Pseudo"
    /\ fstate = "pass3" =>
          /\ Len(finstr) = Len(pass1out)
          /\ \A i \in 1..Len(finstr) :
                /\ finstr[i].op = pass1out[i].op
                /\ \A f \in OperandFields(pass1out[i]) :
                      IF pass1out[i][f].kind = "Pseudo"
                      THEN finstr[i][f].kind = "Stack"
                      ELSE finstr[i][f] = pass1out[i][f]

\* C11: pass 2 has returned a function with seven parameters whose body
\* divides by a variable and compares another
C11_Witness ==
    /\ fstate = "pass3"
    /\ Len(tparams) = 7
    /\ \E i \in 1..Len(pass1out) :
          pass1out[i].op = "Idiv" /\ pass1out[i].operand.kind = "Pseudo"
    /\ \E i \in 1..Len(pass1out) :
          pass1out[i].op = "SetCC" /\ pass1out[i].operand.kind = "Pseudo"
    /\ Cardinality(DOMAIN var_map) >= 8

\* the operand combinations the target forbids
Forbidden(inst) ==
    \/ /\ inst.op = "Mov" \/ (inst.op = "Binary" /\ inst.operator \in {"Add", "Subtract"})
       /\ inst.src.kind = "Stack" /\ inst.dst.kind = "Stack"
    \/ inst.op = "Cmp" /\ inst.src1.kind = "Stack" /\ inst.src2.kind = "Stack"
    \/ inst.op = "Binary" /\ inst.operator = "Multiply" /\ inst.dst.kind = "Stack"
    \/ inst.op \in {"Idiv", "Push"} /\ inst.operand.kind = "Imm"
    \/ inst.op = "Cmp" /\ inst.src2.kind = "Imm"

\* A machine whose registers and stack slots hold terms: a location not
\* written yet holds itself, an instruction builds a term of what it reads.
Machine0 == [cells |-> <<>>, flags |-> [kind |-> "Flags0"], pushed |-> <<>>]

Read(operand, m) ==
    IF operand.kind # "Imm" /\ operand \in DOMAIN m.cells THEN m.cells[operand] ELSE operand

Put(m, operand, x) ==
    [m EXCEPT !.cells = [l \in DOMAIN m.cells \cup {operand} |->
                            IF l = operand THEN x ELSE m.cells[l]]]

Effect(inst, m) ==
    CASE inst.op = "Mov" -> Put(m, inst.dst, Read(inst.src, m))
      [] inst.op = "Binary" ->
            Put(m, inst.dst, [kind |-> "Binary", operator |-> inst.operator,
                              left |-> Read(inst.dst, m), right |-> Read(inst.src, m)])
      [] inst.op = "Unary" ->
            Put(m, inst.operand, [kind |-> "Unary", operator |-> inst.operator,
                                  of |-> Read(inst.operand, m)])
      [] inst.op = "Cmp" ->
            [m EXCEPT !.flags = [kind |-> "Cmp", src1 |-> Read(inst.src1, m),
                                 src2 |-> Read(inst.src2, m)]]
      [] inst.op = "SetCC" ->
            Put(m, inst.operand, [kind |-> "SetCC", cond_code |-> inst.cond_code,
                                  flags |-> m.flags])
      [] inst.op = "Idiv" ->
            LET q == [kind |-> "Quotient", high |-> Read(Reg("DX"), m),
                      low |-> Read(Reg("AX"), m), by |-> Read(inst.operand, m)]
            IN Put(Put(m, Reg("AX"), q), Reg("DX"), [q EXCEPT !.kind = "Remainder"])
      [] inst.op = "Cdq" ->
            Put(m, Reg("DX"), [kind |-> "SignOf", of |-> Read(Reg("AX"), m)])
      [] inst.op = "Push" -> [m EXCEPT !.pushed = Append(@, Read(inst.operand, m))]
      [] OTHER -> m

RECURSIVE EffectOf(_, _, _)
EffectOf(ins, i, m) ==
    IF i > Len(ins) THEN m ELSE EffectOf(ins, i + 1, Effect(ins[i], m))

Scratch == {Reg("R10"), Reg("R11")}

\* the two lists leave the same terms everywhere but in R10 and R11
SameMeaning(a, b) ==
    LET ma == EffectOf(a, 1, Machine0)
        mb == EffectOf(b, 1, Machine0)
    IN /\ ma.flags = mb.flags
       /\ ma.pushed = mb.pushed
       /\ \A l \in (DOMAIN ma.cells \cup DOMAIN mb.cells) \ Scratch :
             Read(l, ma) = Read(l, mb)

\* the registers an instruction names
RegsOf(inst) ==
    {inst[f].reg : f \in {g \in OperandFields(inst) : inst[g].kind = "Reg"}}

\* C16: no instruction pass 3 has pushed has an operand combination the
\* target forbids (two stack slots in a move, an add, a subtract or a compare;
\* a stack slot as the destination of a multiply; an immediate in a divide or
\* a push, or as the second operand of a compare); an instruction pass 3 has
\* rewritten was one of those, the rewrite begins by moving an operand of it
\* to R10 or R11, names no other register the instruction did not name, and
\* leaves every register but those two, every stack slot, the flags and the
\* stack as the instruction would have.
C16_Legalized ==
    /\ fstate \in {"pass3", "done"} =>
          \A i \in 1..Len(new_instructions) : ~Forbidden(new_instructions[i])
    /\ fstate = "done" => \A i \in 1..Len(finstr) : ~Forbidden(finstr[i])
    /\ lastFix # NoFix =>
          /\ SameMeaning(<<lastFix.of>>, lastFix.out)
          /\ lastFix.out # <<lastFix.of>> <=> Forbidden(lastFix.of)
          /\ lastFix.out # <<lastFix.of>> =>
                /\ lastFix.out[1].op = "Mov"
                /\ lastFix.out[1].dst \in Scratch
                /\ \E f \in OperandFields(lastFix.of) : lastFix.out[1].src = lastFix.of[f]
                /\ \A k \in 1..Len(lastFix.out) :
                      RegsOf(lastFix.out[k]) \subseteq RegsOf(lastFix.of) \cup {"R10", "R11"}

\* C16: pass 3 is done with a function in which it has rewritten a compare of
\* two stack slots, and the last it rewrote was a multiply into a stack slot
C16_Witness ==
    /\ fstate = "done"
    /\ lastFix # NoFix
    /\ lastFix.of.op = "Binary"
    /\ lastFix.of.operator = "Multiply"
    /\ lastFix.of.src.kind = "Stack"
    /\ Len(lastFix.out) = 3
    /\ \E i \in 1..Len(finstr) :
          finstr[i].op = "Cmp" /\ finstr[i].src1 = [kind |-> "Reg", reg |-> "R10"]
              /\ finstr[i].src2.kind = "Stack"

(***************************************************************************)
(* The order of the passes, stated on the calls run_pipeline has made.     *)
(***************************************************************************)
\* C12: the passes called so far are the first ones of Validator,
\* TypeChecker, LoopLabeler, TackyGenerator, AsmGenerator, in that order, and
\* every one but the last called has returned Ok; once a pass has returned Err
\* it is the last one called, run_pipeline has returned Err and asm_ast is not
\* bound, nor is tacky_ir unless the error is the selector's; a program in
\* which the Validator or the LoopLabeler finds an error never reaches the
\* TackyGenerator.
C12_PassOrder ==
    /\ Len(ran) <= Len(Passes)
    /\ \A i \in 1..Len(ran) : ran[i] = Passes[i]
    /\ \A i \in 1..(Len(ran) - 1) : ran[i] \notin pdefects
    /\ (ran # <<>> /\ ran[Len(ran)] \in pdefects) =>
          /\ pstage = "returned"
          /\ presult = "Err"
          /\ ~asm_ast
          /\ ran[Len(ran)] # "AsmGenerator" => ~tacky_ir
    /\ presult = "Err" => (ran # <<>> /\ ran[Len(ran)] \in pdefects)
    /\ tacky_ir => \A i \in 1..4 : Passes[i] \notin pdefects
    /\ asm_ast => pdefects = {}
    /\ (pdefects \cap {"Validator", "LoopLabeler"} # {}) =>
          \A i \in 1..Len(ran) : ran[i] # "TackyGenerator"

\* C12: the LoopLabeler has found a break outside a loop in a program the two
\* passes before it accepted, and run_pipeline has returned the error
C12_Witness ==
    /\ pdefects = {"LoopLabeler", "AsmGenerator"}
    /\ ran = <<"Validator", "TypeChecker", "LoopLabeler">>
    /\ presult = "Err"
    /\ ~tacky_ir

(***************************************************************************)
(* Redeclaration, arity and kinds, stated on the declaration or expression *)
(* the checker has met last and on the table as it was before it.          *)
(***************************************************************************)
\* the last thing checked is a function declaration the resolver let through
LastFunction == lastCheck.op = "function"

\* the table already had an entry for the name
Known == lastCheck.old # NoSymbol

\* the entry it had is a function of the arity now declared
SameArity ==
    /\ lastCheck.old.c_type.kind = "Function"
    /\ lastCheck.old.c_type.param_count = lastCheck.n

CheckerFailed(e) == cresult = "Err" /\ cerror = e

\* C13: a function declaration whose name already has an entry that is a
\* scalar, or a function of another arity, fails with IncompatibleRedeclaration,
\* with or without a body on either side, and the entry stays as it was; no
\* other declaration fails with that error.
C13_IncompatibleRedeclaration ==
    /\ (LastFunction /\ Known /\ ~SameArity) =>
          /\ CheckerFailed("IncompatibleRedeclaration")
          /\ symbols_get(symbols, lastCheck.name) = lastCheck.old
    /\ cerror = "IncompatibleRedeclaration" =>
          (LastFunction /\ Known /\ ~SameArity)

\* C13: a definition of a name that is a scalar in the table has been rejected
C13_Witness ==
    /\ LastFunction
    /\ lastCheck.has_body
    /\ lastCheck.old = Symbol(CInt, TRUE)
    /\ CheckerFailed("IncompatibleRedeclaration")

\* C14 as amended: a declaration of a function the table has with the same
\* arity passes unless both it and an earlier one have a body, and then it
\* fails with DuplicateFunctionDefinition; after a declaration that passes the
\* entry is 'defined' exactly when a body has been seen, now or before; a body
\* for a name defined with another arity fails with IncompatibleRedeclaration.
C14_Redeclaration ==
    LastFunction =>
       /\ (Known /\ SameArity /\ ~(lastCheck.old.defined /\ lastCheck.has_body)) =>
             lastCheck.err = "none"
       /\ (Known /\ SameArity /\ lastCheck.old.defined /\ lastCheck.has_body) =>
             /\ CheckerFailed("DuplicateFunctionDefinition")
             /\ symbols_get(symbols, lastCheck.name) = lastCheck.old
       /\ (Known /\ ~SameArity /\ lastCheck.old.defined /\ lastCheck.has_body) =>
             CheckerFailed("IncompatibleRedeclaration")
       /\ lastCheck.err = "none" =>
             symbols_get(symbols, lastCheck.name) =
                Symbol(CFunction(lastCheck.n), lastCheck.old.defined \/ lastCheck.has_body)

\* C14: a declaration without a body has passed after the definition, and the
\* entry is still 'defined'
C14_Witness ==
    /\ LastFunction
    /\ ~lastCheck.has_body
    /\ lastCheck.old.defined
    /\ lastCheck.err = "none"
    /\ symbols_get(symbols, lastCheck.name).defined

\* C14 as written: a declaration with a body for a name that is already
\* defined always fails with DuplicateFunctionDefinition
C14_AlwaysDuplicate ==
    (LastFunction /\ lastCheck.has_body /\ lastCheck.old.defined
        /\ lastCheck.old.c_type.kind = "Function") =>
       CheckerFailed("DuplicateFunctionDefinition")

\* the last thing checked is a call the resolver let through
LastCall == lastCheck.op = "call" /\ lastCheck.err # "resolver"

\* the function definitions whose bodies are open
OpenBodies == {i \in 1..Len(ctx) : ctx[i].kind = "func"}

\* C15: a call the checker passes gives exactly as many arguments as the entry
\* of its callee has parameters, whether it stands alone or among the arguments
\* of another call, and a call of a function with any other number of arguments
\* fails with CallArityMismatch; while the body of a function is checked the
\* table has the function's entry with its arity, so a call of the function in
\* its own body is held to that arity.
C15_CallArity ==
    /\ (LastCall /\ lastCheck.err = "none") =>
          /\ lastCheck.old.c_type.kind = "Function"
          /\ lastCheck.old.c_type.param_count = lastCheck.n
    /\ (LastCall /\ lastCheck.old.c_type.kind = "Function"
          /\ lastCheck.old.c_type.param_count # lastCheck.n) =>
          CheckerFailed("CallArityMismatch")
    /\ cerror = "CallArityMismatch" =>
          (LastCall /\ lastCheck.old.c_type.kind = "Function"
             /\ lastCheck.old.c_type.param_count # lastCheck.n)
    /\ Checking =>
          \A i \in OpenBodies :
             symbols_get(symbols, ctx[i].fn) = Symbol(CFunction(ctx[i].arity), TRUE)

\* C15: in the body of a function of one parameter, a call of that function
\* among the arguments of another call has passed with one argument
C15_Witness ==
    /\ Checking
    /\ OpenBodies # {}
    /\ LastCall
    /\ lastCheck.err = "none"
    /\ lastCheck.n = 1
    /\ Len(pending) = 2
    /\ \E i \in OpenBodies : ctx[i].fn = lastCheck.name /\ ctx[i].arity = 1

\* the last thing checked is a use of a variable the resolver let through
LastVar == lastCheck.op = "var"

\* C17: a call of a name whose innermost visible declaration is a variable is
\* rejected with KindConfusion, by the resolver when that variable is a local
\* or a parameter and by the checker when it is a top-level variable; a use as
\* a variable of a name whose innermost visible declaration is a function is
\* rejected by the checker with KindConfusion; so a call that passes both names
\* a Function entry and a variable use that passes both names an Int entry.
C17_NoKindConfusion ==
    /\ (lastCheck.op = "call" /\ lastCheck.kind = "variable") =>
          IF lastCheck.linked
          THEN CheckerFailed("KindConfusion")
          ELSE vresult = "Err" /\ verror = "KindConfusion"
    /\ (LastVar /\ lastCheck.kind = "function") => CheckerFailed("KindConfusion")
    /\ (LastCall /\ lastCheck.err = "none") =>
          /\ lastCheck.kind = "function"
          /\ lastCheck.old.c_type.kind = "Function"
    /\ (LastVar /\ lastCheck.err = "none") =>
          /\ lastCheck.kind = "variable"
          /\ lastCheck.old.c_type = CInt

\* C17: a call of a top-level variable has passed the resolver and has been
\* rejected by the checker
C17_Witness ==
    /\ lastCheck.op = "call"
    /\ lastCheck.kind = "variable"
    /\ lastCheck.linked
    /\ vresult = "running"
    /\ CheckerFailed("KindConfusion")

(***************************************************************************)
(* The scope of a function's parameters, stated on the input tree.         *)
(***************************************************************************)
IsParam(d) == "param" \in DOMAIN d

\* the parameters called name of the function whose body is at path
ParamsNamed(name, path) ==
    {d \in decls : IsParam(d) /\ d.name = name /\ d.path = path}

\* the parameters called name of a function whose body encloses path
ParamsAround(name, path) ==
    {d \in decls : /\ IsParam(d) /\ d.name = name
                   /\ IsPrefix(d.path, path) /\ d.path # path}

\* C18: a variable declared among the items of a function's body under the name
\* of one of the function's parameters is rejected as a duplicate, and so is a
\* parameter named as an earlier parameter of the same function, so no two
\* parameters of a function share a name; a variable declared under a
\* parameter's name in a block nested in the body, where the block has no
\* declaration of the name yet, is accepted, gets a name of its own, and is what
\* a use of the name in that block resolves to.
C18_ParameterScope ==
    /\ (lastDecl.op = "var" /\ ParamsNamed(lastDecl.name, lastDecl.path) # {}) =>
          /\ lastDecl.err = "DuplicateDeclaration"
          /\ vresult = "Err"
          /\ verror = "DuplicateDeclaration"
    /\ lastDecl.op = "param" =>
          /\ lastDecl.err = "DuplicateDeclaration"
          /\ vresult = "Err"
          /\ ParamsNamed(lastDecl.name, lastDecl.path) # {}
    /\ \A d, e \in decls :
          (IsParam(d) /\ IsParam(e) /\ d.path = e.path /\ d.ord # e.ord) =>
             d.name # e.name
    /\ (lastDecl.op = "var" /\ LastKind(lastDecl.path) = "block"
          /\ ParamsAround(lastDecl.name, lastDecl.path) # {}
          /\ ~\E d \in decls : /\ d.name = lastDecl.name /\ d.ord <= lastDecl.at
                               /\ d.path = lastDecl.path) =>
          /\ lastDecl.err = "none"
          /\ \A q \in ParamsAround(lastDecl.name, lastDecl.path) :
                lastDecl.uniq # q.uniq
    /\ (lastUse.op = "var" /\ lastUse.res # NoName) =>
          \A d \in Innermost(lastUse.name, lastUse.path, lastUse.at) :
             (LastKind(d.path) = "block"
                /\ ParamsAround(lastUse.name, d.path) # {}) =>
                /\ lastUse.res = d.uniq
                /\ \A q \in ParamsAround(lastUse.name, d.path) : lastUse.res # q.uniq

\* C18: a variable declared in a function's body under the name of its
\* parameter has been rejected
C18_Witness ==
    /\ lastDecl.op = "var"
    /\ LastKind(lastDecl.path) = "func"
    /\ ParamsNamed(lastDecl.name, lastDecl.path) # {}
    /\ verror = "DuplicateDeclaration"

(***************************************************************************)
(* The for loop, stated on the stores its code makes when it is run.       *)
(***************************************************************************)
\* the stores of the init clause: one when it gives the variable a value
InitEvents(init) ==
    IF init = NoVal THEN <<>>
    ELSE IF init.kind = "S" THEN <<"k">>
    ELSE IF init.init # NoVal THEN <<"k">> ELSE <<>>

\* the stores of one run of the body, s being the variable its continue is under
BodyEvents(body, s) ==
    CASE body.kind = "Expression" -> <<"a">>
      [] body.kind = "Compound" -> IF s # 0 THEN <<"a">> ELSE <<"a", "b">>
      [] body.kind = "Continue" -> <<>>

\* the stores of one iteration: the test, the body, the post-expression
IterationEvents(loop, s) ==
    (IF loop.condition # NoVal THEN <<"c">> ELSE <<>>)
        \o BodyEvents(loop.body, s)
        \o (IF loop.post # NoVal THEN <<"i">> ELSE <<>>)

\* the code has been generated and is being run, or has been run
CodeRuns == tstate \in {"emitted", "done"}

\* C19: when the code of a for loop is run, the init clause stores once and
\* first; after it the stores repeat, iteration after iteration, the test, the
\* body up to its end or to its continue, and the post-expression once, in
\* that order; the test that follows a post-expression sees the value it
\* stored; a test that stores zero is the last store, and the loop is left
\* only after such a test
C19_ContinueRunsPost ==
    (CodeRuns /\ texp.kind = "For") =>
        LET init == InitEvents(texp.init)
            iter == IterationEvents(texp, env.s)
        IN /\ \A p \in 1..Len(stores) :
                IF p <= Len(init) THEN stores[p].name = init[p]
                ELSE /\ Len(iter) > 0
                     /\ stores[p].name = iter[((p - Len(init) - 1) % Len(iter)) + 1]
           /\ \A p \in 2..Len(stores) :
                (stores[p].name = "c" /\ stores[p - 1].name = "i")
                    => stores[p].value = stores[p - 1].value
           /\ \A p \in 1..Len(stores) :
                (stores[p].name = "c" /\ stores[p].value = 0) => p = Len(stores)
           /\ tstate = "done" =>
                /\ Len(stores) > 0
                /\ stores[Len(stores)] = [name |-> "c", value |-> 0]

\* C19: a loop whose body took its continue has run its post-expression, has
\* tested its condition again and has been left
C19_Witness ==
    /\ tstate = "done"
    /\ texp.kind = "For"
    /\ texp.body.kind = "Compound"
    /\ texp.init # NoVal
    /\ env.s # 0
    /\ \E p \in 2..Len(stores) :
          /\ stores[p - 1].name = "a"
          /\ stores[p].name = "i"
          /\ p + 1 = Len(stores)

(***************************************************************************)
(* The two branches of if and of ?:, stated on the stores of the run.      *)
(***************************************************************************)
\* the value of a branch: the variable it reads
BranchValue(e) == IF e.kind = "Assign" THEN env[e.right.name] ELSE env[e.name]

\* the stores of a branch: one when the branch is an assignment
BranchEvents(e) ==
    IF e.kind = "Assign"
    THEN <<[name |-> e.left.name, value |-> BranchValue(e)]>>
    ELSE <<>>

\* the stores of an if statement: those of the branch its condition selects
IfEvents(stmt) ==
    IF env.s # 0 THEN BranchEvents(stmt.then_stat.exp)
    ELSE IF stmt.else_stat # NoVal THEN BranchEvents(stmt.else_stat.exp)
    ELSE <<>>

\* the branch the condition of a conditional expression selects
Taken(cond) == IF env.s # 0 THEN cond.left ELSE cond.right

\* the stores of r = s ? l : r, the selected branch and then the result
ConditionalEvents(cond) ==
    BranchEvents(Taken(cond))
        \o <<[name |-> "r", value |-> BranchValue(Taken(cond))]>>

\* the stores so far are among the expected ones, all of them at the end
Follows(expected) ==
    /\ IsPrefix(stores, expected)
    /\ tstate = "done" => stores = expected

\* C20: the code of an if statement stores what its then branch stores when the
\* condition is not zero and what its else branch stores when it is zero,
\* nothing when there is no else; the code of a conditional expression stores
\* what the selected branch stores and nothing of the other, and past its end
\* label the result temporary holds the value of the selected branch
C20_OneBranch ==
    /\ (CodeRuns /\ texp.kind = "If") => Follows(IfEvents(texp))
    /\ (CodeRuns /\ texp.kind = "Expression") =>
          /\ Follows(ConditionalEvents(texp.exp.right))
          /\ (At("Copy") /\ instructions[pc].dst.name = "r") =>
                /\ IsTemporary(instructions[pc].src.name)
                /\ instructions[pc - 1].op = "Label"
                /\ ValueOf(instructions[pc].src, env) = BranchValue(Taken(texp.exp.right))

\* C20: an if with both branches storing has been run with a zero condition and
\* made the else branch's store alone, with a value that differs from the
\* then branch's
C20_Witness ==
    /\ tstate = "done"
    /\ texp.kind = "If"
    /\ texp.else_stat # NoVal
    /\ texp.then_stat.exp.kind = "Assign"
    /\ env.s = 0
    /\ env.x # env.y
    /\ stores = <<[name |-> "b", value |-> env.y]>>

(***************************************************************************)
(* The stack slots of pass 2, stated on the list pass 1 returned and the   *)
(* list pass 2 made of it.                                                 *)
(***************************************************************************)
\* the operand fields of an instruction in the order pass 2 assigns them
FieldOrder(inst) ==
    CASE inst.op \in {"Mov", "Binary"} -> <<"src", "dst">>
      [] inst.op \in {"Unary", "Idiv", "SetCC", "Push"} -> <<"operand">>
      [] inst.op = "Cmp" -> <<"src1", "src2">>
      [] OTHER -> <<>>

\* the pseudo-register names of an instruction, in that order
PseudosOf(inst) ==
    LET fs == FieldOrder(inst)
        Name(k) == IF inst[fs[k]].kind = "Pseudo" THEN <<inst[fs[k]].name>> ELSE <<>>
    IN IF Len(fs) = 0 THEN <<>>
       ELSE IF Len(fs) = 1 THEN Name(1)
       ELSE Name(1) \o Name(2)

\* the pseudo-register names of a list from its i-th instruction on
RECURSIVE PseudosFrom(_, _)
PseudosFrom(ins, i) ==
    IF i > Len(ins) THEN <<>> ELSE PseudosOf(ins[i]) \o PseudosFrom(ins, i + 1)

\* how many distinct names stand in the first k places of a sequence
DistinctUpTo(names, k) == Cardinality({names[j] : j \in 1..k})

\* the place of a name among the first occurrences: 1 for the name met first
RankOf(names, n) ==
    LET k == CHOOSE j \in 1..Len(names) :
                 names[j] = n /\ \A h \in 1..(j - 1) : names[h] # n
    IN DistinctUpTo(names, k)

\* the operands of the list pass 1 returned that are pseudo-registers
PseudoPlaces ==
    {<<i, f>> \in (1..Len(pass1out)) \X {"src", "dst", "operand", "src1", "src2"} :
        f \in OperandFields(pass1out[i]) /\ pass1out[i][f].kind = "Pseudo"}

\* C22: when pass 2 has returned, two operands that were pseudo-registers
\* have the same offset exactly when they had the same name; the offset of a
\* name is -4 times its place among the first occurrences in instruction
\* order, at every occurrence; and the byte total returned is 4 times the
\* number of distinct names
C22_SlotsInjective ==
    fstate = "pass3" =>
        LET names == PseudosFrom(pass1out, 1)
        IN /\ \A p \in PseudoPlaces : \A q \in PseudoPlaces :
                 (finstr[p[1]][p[2]].offset = finstr[q[1]][q[2]].offset)
                     <=> (pass1out[p[1]][p[2]].name = pass1out[q[1]][q[2]].name)
           /\ \A p \in PseudoPlaces :
                 finstr[p[1]][p[2]] =
                     Stack(0 - 4 * RankOf(names, pass1out[p[1]][p[2]].name))
           /\ stack_bytes = 4 * DistinctUpTo(names, Len(names))

\* C22: pass 2 has returned a function in which a name stands more than once
\* after another name was met first, and three names or more have slots
C22_Witness ==
    /\ fstate = "pass3"
    /\ stack_bytes >= 12
    /\ LET names == PseudosFrom(pass1out, 1)
       IN \E j \in 1..Len(names) : \E k \in 1..Len(names) :
             /\ 1 < j /\ j < k
             /\ names[j] = names[k]
             /\ names[1] # names[j]

(***************************************************************************)
(* The prologue of pass 3, stated on the list it returns.                  *)
(***************************************************************************)
\* size is the byte total rounded up to the next multiple of 16
RoundedUp(size, total) == size % 16 = 0 /\ size >= total /\ size < total + 16

\* C23 as stated: the list pass 3 returns begins, for every function, with a
\* stack allocation of the byte total of pass 2 rounded up to a multiple of 16
C23_AlwaysPrologue ==
    fstate = "done" =>
        /\ Len(finstr) >= 1
        /\ finstr[1].op = "AllocateStack"
        /\ RoundedUp(finstr[1].bytes, stack_bytes)

\* C23: when the byte total of pass 2 is not zero, the list pass 3 returns
\* begins with a stack allocation of that total rounded up to the next
\* multiple of 16; when the total is zero, pass 3 prepends nothing, and the
\* list it returns holds no stack allocation
C23_PrologueWhenUsed ==
    /\ (fstate = "pass3" /\ pidx = 1) =>
          new_instructions =
              IF stack_bytes > 0 THEN <<AllocateStack(aligned_bytes(stack_bytes))>> ELSE <<>>
    /\ (fstate = "done" /\ stack_bytes > 0) =>
          /\ Len(finstr) >= 1
          /\ finstr[1].op = "AllocateStack"
          /\ RoundedUp(finstr[1].bytes, stack_bytes)
    /\ (fstate = "done" /\ stack_bytes = 0) =>
          \A i \in 1..Len(finstr) : finstr[i].op # "AllocateStack"

\* C23: pass 3 has returned a function whose byte total is not a multiple of
\* 16, behind a prologue
C23_Witness ==
    /\ fstate = "done"
    /\ stack_bytes > 16
    /\ stack_bytes % 16 # 0
    /\ finstr[1].op = "AllocateStack"
    /\ finstr[1].bytes = 32

(***************************************************************************)
(* C26: the scope stack of the resolver is balanced.  While resolution     *)
(* succeeds the stack is never empty and holds one frame per open          *)
(* construct; the frames under an open block, for statement or function    *)
(* are the ones it was entered with; leaving a block or a for statement    *)
(* gives back exactly the stack of its entry, and a function declaration   *)
(* (with a body or without) gives back the stack of its entry with the     *)
(* function's own name entered in the innermost frame; between top-level   *)
(* declarations and on return exactly the global frame is left.            *)
(***************************************************************************)
\* frame g is frame f with the entry of name added or overwritten
SameFrameBut(f, g, name) ==
    /\ DOMAIN g = DOMAIN f \cup {name}
    /\ \A n \in DOMAIN f \ {name} : g[n] = f[n]

\* stack after is stack before, but for the entry of name in the innermost frame
SameFramesBut(before, after, name) ==
    /\ Len(after) = Len(before)
    /\ \A i \in 1..(Len(before) - 1) : after[i] = before[i]
    /\ SameFrameBut(before[Len(before)], after[Len(after)], name)

OpenFramesKept ==
    \A i \in 2..Len(ctx) :
        IF ctx[i].kind = "func"
        THEN SameFramesBut(ctx[i].entry, SubSeq(scopes, 1, i - 1), ctx[i].fn)
        ELSE SubSeq(scopes, 1, i - 1) = ctx[i].entry

ScopesInStep ==
    Running =>
        /\ Len(scopes) >= 1
        /\ Len(scopes) = Len(ctx)
        /\ OpenFramesKept
        /\ Top.kind = "global" => Len(scopes) = 1

OneFrameOnReturn == vresult = "Ok" => Len(scopes) = 1

\* a step that closes a construct and goes on
ClosesConstruct == Running /\ vresult' = "running" /\ Len(ctx') = Len(ctx) - 1

\* a function declaration without a body, resolved in one step
DeclaresPrototype ==
    /\ Running /\ vresult' = "running" /\ Len(ctx') = Len(ctx)
    /\ lastDecl' # lastDecl /\ lastDecl'.op = "function"

ExitRestores ==
    /\ ClosesConstruct =>
         IF Top.kind = "func" THEN SameFramesBut(Top.entry, scopes', Top.fn)
         ELSE scopes' = Top.entry
    /\ DeclaresPrototype => SameFramesBut(scopes, scopes', lastDecl'.name)

C26_ScopeBalance ==
    /\ [](ScopesInStep /\ OneFrameOnReturn)
    /\ [][ExitRestores]_vars

\* C26 witness: resolution returned successfully after a function body and a
\* for statement in it were entered and left, the for statement holding a
\* declaration, and the global frame alone is left
C26_Witness ==
    /\ vresult = "Ok"
    /\ Len(scopes) = 1
    /\ DOMAIN scopes[1] # {}
    /\ nframes = 3
    /\ \E d \in decls : d.path[Len(d.path)].kind = "for"

(***************************************************************************)
(* C27: the loop-id stack of the labeler is balanced.  Every successful    *)
(* return from labeling a statement leaves the stack as the statement      *)
(* found it; the stack is empty when a function body begins and when it    *)
(* ends; and the id a break or continue receives is the id of a loop that  *)
(* is open around it in its own function.                                  *)
(***************************************************************************)
\* the ids of the loops open in path, outermost first
RECURSIVE OpenLoopIds(_, _)
OpenLoopIds(path, i) ==
    IF i = 0 THEN <<>>
    ELSE IF path[i].kind = "loop"
         THEN Append(OpenLoopIds(path, i - 1),
                     (CHOOSE l \in loops : l.node = path[i].node).id)
         ELSE OpenLoopIds(path, i - 1)

StackIsOpenLoops ==
    lresult # "Err" =>
        /\ loop_id_stack = OpenLoopIds(lctx, Len(lctx))
        /\ \A i \in 1..Len(lctx) :
              lctx[i].entry = OpenLoopIds(lctx, i - 1)
        /\ Len(lctx) <= 1 => loop_id_stack = <<>>

JumpStaysInFunction ==
    (lastJump # NoJump /\ lastJump.target # NoId) =>
        /\ lastJump.path[1].kind = "func"
        /\ \E i \in 2..Len(lastJump.path) :
              /\ lastJump.path[i].kind = "loop"
              /\ \E l \in loops : l.node = lastJump.path[i].node /\ l.id = lastJump.target
        /\ \A l \in loops :
              l.id = lastJump.target => l.node > lastJump.path[1].node

\* a statement is left, or labeled in one step, and labeling goes on
StatementReturns == Labeling /\ lresult' # "Err" /\ Len(lctx') <= Len(lctx)

ReturnRestores ==
    StatementReturns =>
        IF Len(lctx') < Len(lctx) THEN loop_id_stack' = LTop.entry
        ELSE loop_id_stack' = loop_id_stack

C27_LoopBalance ==
    /\ [](StackIsOpenLoops /\ JumpStaysInFunction)
    /\ [][ReturnRestores]_vars

\* C27 witness: a second function body is being labeled after a first one that
\* held a loop, a jump in the second function has been labeled with the id of
\* its own loop, and that loop has been left again
C27_Witness ==
    /\ Labeling
    /\ Len(lctx) = 1
    /\ loop_id_stack = <<>>
    /\ lastJump # NoJump
    /\ lastJump.target # NoId
    /\ lastJump.path[1] = lctx[1]
    /\ \E l \in loops : l.node < lctx[1].node

(***************************************************************************)
(* C30: the two duplicate tests of the resolver differ.  A variable        *)
(* declaration is refused exactly when the innermost frame already holds   *)
(* an entry for its name, linked or not; a function declaration is refused *)
(* for its name exactly when that entry is there and is not linked.  So a  *)
(* function declared over an earlier top-level variable of the same name   *)
(* passes the resolver, and it is the type checker that rejects it, as an  *)
(* incompatible redeclaration.                                             *)
(***************************************************************************)
InnermostFrame == scopes[Len(scopes)]

\* the step is a declaration of the given kind, let through or refused
DeclarationStep(kind) ==
    /\ nchecked' = nchecked + 1
    /\ lastCheck'.kind = kind
    /\ lastCheck'.op \in {kind, "refused"}

DeclaredName == IF lastCheck'.op = "variable" THEN lastCheck'.src ELSE lastCheck'.name

NowRefused ==
    /\ lastCheck'.op = "refused"
    /\ vresult' = "Err"
    /\ verror' = "DuplicateDeclaration"

NowPassed == lastCheck'.op # "refused" /\ vresult' = "running"

VariableRule ==
    DeclarationStep("variable") =>
        IF DeclaredName \in DOMAIN InnermostFrame THEN NowRefused ELSE NowPassed

FunctionRule ==
    DeclarationStep("function") =>
        IF /\ DeclaredName \in DOMAIN InnermostFrame
           /\ ~InnermostFrame[DeclaredName].has_external_linkage
        THEN NowRefused
        ELSE /\ NowPassed
             /\ symbols_get(symbols, DeclaredName).c_type = CInt =>
                   /\ lastCheck'.err = "IncompatibleRedeclaration"
                   /\ cresult' = "Err"
                   /\ cerror' = "IncompatibleRedeclaration"

C30_DuplicateTests == [][VariableRule /\ FunctionRule]_vars

\* C30 witness: a function was declared over a top-level variable of its name:
\* the resolver let it through and the type checker rejected it
C30_Witness ==
    /\ lastCheck.op = "function"
    /\ Top.kind = "global"
    /\ lastCheck.name \in DOMAIN scopes[1]
    /\ lastCheck.old = Symbol(CInt, TRUE)
    /\ vresult = "running"
    /\ cerror = "IncompatibleRedeclaration"

(***************************************************************************)
(* C21: the instruction list of every lowered function ends with a Return. *)
(* It is the list the body was lowered to when that list ends with a       *)
(* Return, and that list followed by Return 0 when it does not; and the    *)
(* code of a lowered function, run from its first instruction, never gets  *)
(* past its last instruction.                                              *)
(***************************************************************************)
OpsOf(ins) == [i \in 1..Len(ins) |-> ins[i].op]

\* the operations the body of the k-th function is lowered to
BlockOps(k) == OpsOf(generate_tacky_for_block(texp[k].body, 1, Gen(<<>>, 0, 0)).instructions)

EndsWithReturn(ops) == ops # <<>> /\ ops[Len(ops)] = "Return"

ImplicitReturn(k) ==
    LET body == tacky_functions[k].body
    IN /\ EndsWithReturn(OpsOf(body))
       /\ IF EndsWithReturn(BlockOps(k))
          THEN OpsOf(body) = BlockOps(k)
          ELSE /\ OpsOf(body) = Append(BlockOps(k), "Return")
               /\ body[Len(body)] = Return(ValConstant(0))

C21_EndsWithReturn ==
    /\ \A k \in 1..Len(tacky_functions) : ImplicitReturn(k)
    /\ tstate = "emitted" => pc \in 1..Len(instructions)

\* C21 witness: a function whose body ends with the label of an if or of a loop
\* has run to the Return 0 appended after that label, and returned there
C21_Witness ==
    /\ tstate = "returned"
    /\ Len(instructions) > 1
    /\ pc = Len(instructions)
    /\ instructions[pc] = Return(ValConstant(0))
    /\ instructions[pc - 1].op = "Label"
    /\ tval = ValConstant(0)

(***************************************************************************)
(* C25: lowering keeps the order of evaluation of the source.  In the      *)
(* instruction list of a function the instructions of the left operand of  *)
(* a binary operator come before those of its right operand; those of the  *)
(* arguments of a call come in the order of the arguments, and all before  *)
(* the one call instruction, which carries their values in that order; the *)
(* right-hand side of an assignment comes before the copy into its target; *)
(* and the instructions of a statement come before those of every          *)
(* statement after it in its block.  The calls in an operand tell where    *)
(* its instructions are.                                                   *)
(***************************************************************************)
RECURSIVE CallsIn(_)
CallsIn(exp) ==
    CASE exp.kind \in {"Var", "Constant"} -> {}
      [] exp.kind = "Unary" -> CallsIn(exp.expression)
      [] exp.kind \in {"Binary", "Assign"} -> CallsIn(exp.left) \cup CallsIn(exp.right)
      [] exp.kind = "Conditional" ->
            CallsIn(exp.condition) \cup CallsIn(exp.left) \cup CallsIn(exp.right)
      [] exp.kind = "FunctionCall" ->
            {exp.name} \cup UNION {CallsIn(exp.args[i]) : i \in 1..Len(exp.args)}

RECURSIVE CallsInStatement(_)
CallsInItem(item) ==
    IF item = NoVal THEN {}
    ELSE IF item.kind = "D" THEN (IF item.init = NoVal THEN {} ELSE CallsIn(item.init))
    ELSE CallsInStatement(item.stmt)

CallsInOption(exp) == IF exp = NoVal THEN {} ELSE CallsIn(exp)

CallsInStatement(stmt) ==
    CASE stmt = NoVal -> {}
      [] stmt.kind \in {"Expression", "Return"} -> CallsIn(stmt.exp)
      [] stmt.kind \in {"Empty", "Break", "Continue"} -> {}
      [] stmt.kind = "If" ->
            CallsIn(stmt.condition) \cup CallsInStatement(stmt.then_stat)
                \cup CallsInStatement(stmt.else_stat)
      [] stmt.kind = "Compound" ->
            UNION {CallsInItem(stmt.blocks[i]) : i \in 1..Len(stmt.blocks)}
      [] stmt.kind \in {"While", "DoWhile"} ->
            CallsIn(stmt.condition) \cup CallsInStatement(stmt.body)
      [] stmt.kind = "For" ->
            CallsInItem(stmt.init) \cup CallsInOption(stmt.condition)
                \cup CallsInOption(stmt.post) \cup CallsInStatement(stmt.body)

\* the places of the call instructions of a callee in a list
PlacesOf(ins, name) == {i \in 1..Len(ins) : ins[i].op = "FunCall" /\ ins[i].name = name}

\* every call of the first set is lowered, and before every call of the second
Precede(ins, first, second) ==
    \A m \in first, n \in second :
        /\ PlacesOf(ins, m) # {} /\ PlacesOf(ins, n) # {}
        /\ \A i \in PlacesOf(ins, m), j \in PlacesOf(ins, n) : i < j

CopiesInto(ins, name) ==
    {i \in 1..Len(ins) : ins[i].op = "Copy" /\ ins[i].dst = ValVar(name)}

RECURSIVE ExpressionInOrder(_, _)
ExpressionInOrder(exp, ins) ==
    CASE exp.kind \in {"Var", "Constant"} -> TRUE
      [] exp.kind = "Unary" -> ExpressionInOrder(exp.expression, ins)
      [] exp.kind = "Binary" ->
            /\ Precede(ins, CallsIn(exp.left), CallsIn(exp.right))
            /\ ExpressionInOrder(exp.left, ins)
            /\ ExpressionInOrder(exp.right, ins)
      [] exp.kind = "Assign" ->
            /\ \E c \in CopiesInto(ins, exp.left.name) :
                  \A m \in CallsIn(exp.right) : \A i \in PlacesOf(ins, m) : i < c
            /\ ExpressionInOrder(exp.right, ins)
      [] exp.kind = "Conditional" ->
            /\ Precede(ins, CallsIn(exp.condition), CallsIn(exp.left) \cup CallsIn(exp.right))
            /\ ExpressionInOrder(exp.condition, ins)
            /\ ExpressionInOrder(exp.left, ins)
            /\ ExpressionInOrder(exp.right, ins)
      [] exp.kind = "FunctionCall" ->
            /\ Cardinality(PlacesOf(ins, exp.name)) = 1
            /\ \A i \in 1..Len(exp.args) :
                  /\ Precede(ins, CallsIn(exp.args[i]), {exp.name})
                  /\ ExpressionInOrder(exp.args[i], ins)
                  /\ \A j \in (i + 1)..Len(exp.args) :
                        Precede(ins, CallsIn(exp.args[i]), CallsIn(exp.args[j]))
            /\ LET call == ins[CHOOSE i \in PlacesOf(ins, exp.name) : TRUE]
               IN /\ Len(call.args) = Len(exp.args)
                  /\ \A i \in 1..Len(exp.args) :
                        exp.args[i].kind = "FunctionCall" =>
                            \E j \in PlacesOf(ins, exp.args[i].name) :
                                call.args[i] = ins[j].dst

RECURSIVE StatementInOrder(_, _)
ItemInOrder(item, ins) ==
    IF item.kind = "D"
    THEN item.init # NoVal =>
            /\ ExpressionInOrder(item.init, ins)
            /\ \E c \in CopiesInto(ins, item.name) :
                  \A m \in CallsIn(item.init) : \A i \in PlacesOf(ins, m) : i < c
    ELSE StatementInOrder(item.stmt, ins)

BlockInOrder(blocks, ins) ==
    \A i \in 1..Len(blocks) :
        /\ ItemInOrder(blocks[i], ins)
        /\ \A j \in (i + 1)..Len(blocks) :
              Precede(ins, CallsInItem(blocks[i]), CallsInItem(blocks[j]))

StatementInOrder(stmt, ins) ==
    CASE stmt.kind \in {"Expression", "Return"} -> ExpressionInOrder(stmt.exp, ins)
      [] stmt.kind = "Compound" -> BlockInOrder(stmt.blocks, ins)
      [] OTHER -> TRUE

C25_EvaluationOrder ==
    \A k \in 1..Len(tacky_functions) :
        BlockInOrder(texp[k].body, tacky_functions[k].body)

\* C25 witness: a body with calls as the arguments of a call and a body with
\* calls as the operands of an assigned sum have both been lowered: the list of
\* one function holds a call that carries three values, the list of the other
\* holds the three calls, an Add and a copy into the target
C25_Witness ==
    /\ Len(tacky_functions) = 2
    /\ \E k \in 1..2 :
          LET ins == tacky_functions[k].body
          IN /\ PlacesOf(ins, "p4") # {}
             /\ \E i \in PlacesOf(ins, "p4") : Len(ins[i].args) = 3
    /\ \E k \in 1..2 :
          LET ins == tacky_functions[k].body
          IN /\ PlacesOf(ins, "p4") = {}
             /\ PlacesOf(ins, "p3") # {}
             /\ \E i \in 1..Len(ins) : ins[i].op = "Binary" /\ ins[i].operator = "Add"
             /\ CopiesInto(ins, "a") # {}

(***************************************************************************)
(* C29: the labels of the lowered program.  Over all the functions of the  *)
(* program no label is defined twice, and every Jump, JumpIfZero and       *)
(* JumpIfNotZero of a function names a label defined in the list of that   *)
(* same function.  The labels of a loop are formed from its id, which no   *)
(* other loop has, under loop_start, continue and break; every other label *)
(* is formed from the label counter, under another prefix.                 *)
(***************************************************************************)
LabelPlaces(k) ==
    {i \in 1..Len(tacky_functions[k].body) : tacky_functions[k].body[i].op = "Label"}

JumpPlaces(k) ==
    {i \in 1..Len(tacky_functions[k].body) :
        tacky_functions[k].body[i].op \in {"Jump", "JumpIfZero", "JumpIfNotZero"}}

Lowered == 1..Len(tacky_functions)

DefinedOnce ==
    \A k1 \in Lowered, k2 \in Lowered :
        \A i \in LabelPlaces(k1), j \in LabelPlaces(k2) :
            tacky_functions[k1].body[i].name = tacky_functions[k2].body[j].name
                => (k1 = k2 /\ i = j)

TargetsDefined ==
    \A k \in Lowered : \A i \in JumpPlaces(k) :
        \E j \in LabelPlaces(k) :
            tacky_functions[k].body[j].name = tacky_functions[k].body[i].target

LoopPrefixes == {LOOP_START_PREFIX, CONTINUE_LABEL_PREFIX, BREAK_LABEL_PREFIX}

\* the names the loops of the program can have been given
LoopLabelNames ==
    {make_label_with_id(prefix, id) : prefix \in LoopPrefixes, id \in 0..(counter - 1)}

\* the names the label counter has been used for
CounterLabelNames ==
    {(make_label_with_prefix(prefix, n)).label :
        prefix \in {"and_false", "and_end", "or_true", "or_end", "cond_else", "cond_end",
                    "else", "if_end"},
        n \in 0..(label_counter - 1)}

\* the names of the labels defined in the program
DefinedNames ==
    UNION {{tacky_functions[k].body[i].name : i \in LabelPlaces(k)} : k \in Lowered}

LabelsKeyed ==
    LET loop_names == LoopLabelNames
        counter_names == CounterLabelNames
    IN /\ loop_names \cap counter_names = {}
       /\ DefinedNames \subseteq loop_names \cup counter_names

C29_LabelIntegrity == DefinedOnce /\ TargetsDefined /\ LabelsKeyed

\* C29 witness: two functions have been lowered, each with a conditional jump,
\* a jump and three labels or more, one of them with the three labels of a for
C29_Witness ==
    /\ Len(tacky_functions) = 2
    /\ \A k \in Lowered :
          /\ Cardinality(LabelPlaces(k)) >= 3
          /\ \E i \in JumpPlaces(k) : tacky_functions[k].body[i].op = "Jump"
          /\ \E i \in JumpPlaces(k) : tacky_functions[k].body[i].op = "JumpIfZero"
    /\ \E k \in Lowered : \E id \in 0..(counter - 1) :
          \A prefix \in LoopPrefixes :
              \E i \in LabelPlaces(k) :
                  tacky_functions[k].body[i].name = make_label_with_id(prefix, id)

(***************************************************************************)
(* C24: within one compilation the generator gives every id once, and in   *)
(* increasing order through the passes: the ids in the names the resolver  *)
(* gives to locals and parameters come before the ids the labeler gives to *)
(* loops, and those before the ids in the temporaries of the lowering.  So *)
(* no temporary tmp.N is the name the resolver gave to a variable of the   *)
(* program, even to one called tmp, and no loop id is the id in a renamed  *)
(* name.                                                                   *)
(***************************************************************************)
Issued == 0..(counter - 1)

RenamedDecls == {d \in decls : ~d.linked}

IdOfDecl(d) == CHOOSE id \in Issued : d.uniq = d.name \o "." \o FormatId(id)

ResolverIds == {id \in Issued : \E d \in RenamedDecls : d.uniq = d.name \o "." \o FormatId(id)}

LabelerIds == {l.id : l \in loops}

\* the instructions of the lowered program that write a temporary
TemporaryWrites ==
    UNION {{<<k, i>> : i \in {j \in 1..Len(tacky_functions[k].body) :
                                tacky_functions[k].body[j].op \in {"Unary", "Binary"}}} :
           k \in Lowered}

TemporaryNames == {tacky_functions[w[1]].body[w[2]].dst.name : w \in TemporaryWrites}

LoweringIds == {id \in Issued : "tmp." \o FormatId(id) \in TemporaryNames}

EveryIdOnce ==
    /\ \A d \in RenamedDecls : \E id \in Issued : d.uniq = d.name \o "." \o FormatId(id)
    /\ Cardinality(ResolverIds) = Cardinality(RenamedDecls)
    /\ LabelerIds \subseteq Issued
    /\ Cardinality(LabelerIds) = Cardinality(loops)
    /\ Cardinality(LoweringIds) = Cardinality(TemporaryWrites)
    /\ Cardinality(TemporaryNames) = Cardinality(TemporaryWrites)
    /\ ResolverIds \cap LabelerIds = {}
    /\ ResolverIds \cap LoweringIds = {}
    /\ LabelerIds \cap LoweringIds = {}
    /\ ResolverIds \cup LabelerIds \cup LoweringIds = Issued

InIncreasingOrder ==
    /\ \A d1 \in RenamedDecls, d2 \in RenamedDecls :
          d1.ord < d2.ord => IdOfDecl(d1) < IdOfDecl(d2)
    /\ \A l1 \in loops, l2 \in loops : l1.node < l2.node => l1.id < l2.id
    /\ \A r \in ResolverIds, l \in LabelerIds : r < l
    /\ \A l \in LabelerIds, t \in LoweringIds : l < t
    /\ \A r \in ResolverIds, t \in LoweringIds : r < t

NoNameClash == TemporaryNames \cap {d.uniq : d \in decls} = {}

C24_UniqueIds ==
    /\ [](EveryIdOnce /\ InIncreasingOrder /\ NoNameClash)
    /\ [][counter' >= counter]_vars

\* C24 witness: a variable the program calls tmp was renamed, a loop was given
\* an id, and the lowered function reads the renamed variable into a temporary
C24_Witness ==
    /\ tacky_functions # <<>>
    /\ loops # {}
    /\ \E d \in RenamedDecls :
          /\ d.name = "tmp"
          /\ \E w \in TemporaryWrites :
                LET ins == tacky_functions[w[1]].body[w[2]]
                IN ins.op = "Unary" /\ ins.src = ValVar(d.uniq)

(***************************************************************************)
(* C28: the argument registers around calls and at function entry, stated  *)
(* on the list pass 3 returns.                                             *)
(***************************************************************************)
ArgumentRegisters == {arg_registers[i] : i \in 1..Len(arg_registers)}

\* the registers an instruction writes
WrittenBy(inst) ==
    CASE inst.op \in {"Mov", "Binary"} ->
            IF inst.dst.kind = "Reg" THEN {inst.dst.reg} ELSE {}
      [] inst.op \in {"Unary", "SetCC"} ->
            IF inst.operand.kind = "Reg" THEN {inst.operand.reg} ELSE {}
      [] inst.op = "Cdq" -> {"DX"}
      [] inst.op = "Idiv" -> {"AX", "DX"}
      [] OTHER -> {}

\* the instruction at i is the first argument move of the call at c
FirstArgumentMove(i, c) ==
    /\ i < c
    /\ finstr[c].op = "Call"
    /\ finstr[i].op = "Mov"
    /\ finstr[i].dst = Reg(arg_registers[1])
    /\ \A j \in i..(c - 1) : finstr[j].op # "Call"

\* from the first argument move of a call to the call, an argument register
\* is written only by the move of its own argument, the k-th instruction
\* writing the k-th register
ArgumentsKept ==
    \A c \in 1..Len(finstr) : \A i \in 1..Len(finstr) :
       FirstArgumentMove(i, c) =>
          \A j \in i..(c - 1) :
             WrittenBy(finstr[j]) \cap ArgumentRegisters # {} =>
                /\ j - i + 1 <= Len(arg_registers)
                /\ finstr[j].op = "Mov"
                /\ finstr[j].src.kind \in {"Imm", "Stack"}
                /\ finstr[j].dst = Reg(arg_registers[j - i + 1])

\* the instructions that copy the first n parameters
CopyLength(n) ==
    IF n <= Len(arg_registers) THEN n
    ELSE Len(arg_registers) + 2 * (n - Len(arg_registers))

\* the copy of the i-th parameter stands where it would with `before`
\* instructions ahead of the copies: a move out of its register, or, for a
\* parameter passed on the stack, the two moves through R10
ParameterCopied(i, before) ==
    LET p == before + CopyLength(i - 1) + 1
        slot == Stack(var_map[tparams[i]])
    IN IF i <= Len(arg_registers)
       THEN /\ p <= Len(finstr)
            /\ finstr[p] = Mov(Reg(arg_registers[i]), slot)
       ELSE /\ p + 1 <= Len(finstr)
            /\ finstr[p] = Mov(Stack(16 + (i - 7) * 8), Reg("R10"))
            /\ finstr[p + 1] = Mov(Reg("R10"), slot)

\* the copies of all the parameters stand behind `before` instructions, none of
\* which, nor any of the copies, writes an argument register
CopiesBehind(before) ==
    /\ \A i \in 1..Len(tparams) : ParameterCopied(i, before)
    /\ \A j \in 1..(before + CopyLength(Len(tparams))) :
          j <= Len(finstr) /\ WrittenBy(finstr[j]) \cap ArgumentRegisters = {}

\* C28 as stated: in the list pass 3 returns, the argument registers are
\* written between the first argument move of a call and the call only by the
\* argument moves, and the parameter copies come before every other
\* instruction of the function
C28_CopiesFirst ==
    fstate = "done" => ArgumentsKept /\ CopiesBehind(0)

\* C28: in the list pass 3 returns, the argument registers are written between
\* the first argument move of a call and the call only by the argument moves,
\* one per register and in the order of the registers; the parameter copies
\* come before every other instruction of the function but the stack
\* allocation pass 3 prepends when the byte total is not zero, and neither
\* that allocation nor a copy writes an argument register
C28_ArgumentRegistersKept ==
    fstate = "done" =>
        /\ ArgumentsKept
        /\ CopiesBehind(IF stack_bytes > 0 THEN 1 ELSE 0)
        /\ stack_bytes > 0 => finstr[1].op = "AllocateStack"
        /\ Len(tparams) > 0 => stack_bytes > 0

\* C28: pass 3 has returned a function of seven parameters that calls with
\* seven arguments, the seventh pushed from memory through AX, after a
\* division
C28_Witness ==
    /\ fstate = "done"
    /\ Len(tparams) = 7
    /\ \E c \in 1..Len(finstr) : \E i \in 1..Len(finstr) :
          /\ FirstArgumentMove(i, c)
          /\ c - i = 8
          /\ finstr[c - 2] = Mov(Stack(var_map["a"]), Reg("AX"))
          /\ finstr[c - 1] = AsmPush(Reg("AX"))
          /\ \E d \in 1..(i - 1) : finstr[d].op = "Idiv"

=============================================================================
